---------------------------- MODULE Spec2Model ----------------------------
(***************************************************************************)
(* doxygen-to-md: the Doxygen XML -> Markdown converter                     *)
(* (src/src/doxygen_to_md/convert.py) and its command line wrapper          *)
(* (src/src/doxygen_to_md/cli.py).                                          *)
(*                                                                         *)
(* A Python str is a sequence of one-character strings.  An XML text is a   *)
(* sequence of tokens (start tag, end tag, character data, stray markup);   *)
(* ET.fromstring is the stack parser that builds the element tree from it   *)
(* or raises ParseError.  An element is a record                            *)
(*   [tag, kind, text, children, tail]                                      *)
(* as xml.etree.ElementTree keeps it ("kind" is the only attribute the     *)
(* program reads; text/tail None and '' are both <<>>, which every use in   *)
(* the program treats alike).                                               *)
(*                                                                         *)
(* The tables of characters (white space, lower case, cased and            *)
(* case-ignorable characters) are those of the Unicode database of Python   *)
(* 3.11.  The file system is a set of directories and a set of regular      *)
(* files, each named by the sequence of names that leads to it from the     *)
(* root, with the place of the working directory; its limits are those of   *)
(* Linux.  It holds no links, every directory of it can be read, searched   *)
(* and written, and nothing else touches it during the run.  main is called *)
(* on an input directory, "in" in the working directory; its entries, and   *)
(* what line 29 makes in it, are listed from the file system.               *)
(***************************************************************************)
EXTENDS Integers, Sequences, FiniteSets, TLC

VARIABLES
    pc,             \* position of the running function
    doxygen_text,   \* convert: its argument (XML text, as tokens)
    root,           \* convert: the parsed tree
    md_parts,       \* convert: the blocks emitted so far
    idx,            \* convert: index of the next compounddef / memberdef
    result,         \* convert: the returned Markdown
    raised,         \* convert: the exception raised ("" for none)
    text,           \* _anchor: its argument
    s,              \* _anchor: its local s
    elem,           \* _text_from_elem: its argument
    paras,          \* _text_from_elem: its local paras
    ret,            \* _text_from_elem: the returned string
    dir,            \* main: the files of the input directory: name -> text
    files,          \* main: sorted(path.glob("*.xml"))
    fi,             \* main: index of the next file
    stderr,         \* main: names of the files a skip notice was printed for
    written,        \* main: the files written: [file, stem, group, name, md]
    calls,          \* main: names of the files convert was called on
    rc,             \* main: the return code (-1 while running)
    fs,             \* main: the file system: [cwd, dirs, files]
    exc,            \* main: the exception that left it, as [type, line]
    outdir,         \* main: the argument --outdir (<<>> when not given)
    encodings        \* main: the encodings in force: [stdout, fs]

convVars   == <<doxygen_text, root, md_parts, idx, result, raised>>
anchorVars == <<text, s>>
textVars   == <<elem, paras, ret>>
cliVars    == <<dir, files, fi, stderr, written, calls, rc, fs, exc, outdir, encodings>>
vars       == <<pc, convVars, anchorVars, textVars, cliVars>>

---------------------------------------------------------------------------
(* Bounds of the model.                                                    *)

MaxTextLen == 4
MaxTokens == 5
MaxChildren == 2
MaxValues == 2
MaxCompounds == 2
MaxMembers == 2
MaxParams == 2
MaxFiles == 3
MaxNameLen == 4

---------------------------------------------------------------------------
(* Characters and str methods.                                             *)

NL == "\n"
\* the backquote, which a TLA+ string literal cannot hold
BT == "BACKQUOTE"

\* the characters str.strip() removes: those str.isspace() holds for.  A
\* character that a string literal of this language cannot hold is written
\* by its code point, as in "U+2028"
Whitespace ==
    {"\t", "\n", "", "\f", "\r", "", "", "", "", " ", "", " ",
     " ", "U+2000", "U+2001", "U+2002", "U+2003", "U+2004", "U+2005", "U+2006", "U+2007", "U+2008", "U+2009", "U+200A",
     "U+2028", "U+2029", "U+202F", "U+205F", "U+3000"}

\* the characters that str.lower() changes into one other character, in
\* code point order ...
UpperSeq ==
    <<"A", "B", "C", "D", "E", "F", "G", "H", "I", "J", "K", "L",
      "M", "N", "O", "P", "Q", "R", "S", "T", "U", "V", "W", "X",
      "Y", "Z", "À", "Á", "Â", "Ã", "Ä", "Å", "Æ", "Ç", "È", "É",
      "Ê", "Ë", "Ì", "Í", "Î", "Ï", "Ð", "Ñ", "Ò", "Ó", "Ô", "Õ",
      "Ö", "Ø", "Ù", "Ú", "Û", "Ü", "Ý", "Þ", "U+0100", "U+0102", "U+0104", "U+0106",
      "U+0108", "U+010A", "U+010C", "U+010E", "U+0110", "U+0112", "U+0114", "U+0116", "U+0118", "U+011A", "U+011C", "U+011E",
      "U+0120", "U+0122", "U+0124", "U+0126", "U+0128", "U+012A", "U+012C", "U+012E", "U+0132", "U+0134", "U+0136", "U+0139",
      "U+013B", "U+013D", "U+013F", "U+0141", "U+0143", "U+0145", "U+0147", "U+014A", "U+014C", "U+014E", "U+0150", "U+0152",
      "U+0154", "U+0156", "U+0158", "U+015A", "U+015C", "U+015E", "U+0160", "U+0162", "U+0164", "U+0166", "U+0168", "U+016A",
      "U+016C", "U+016E", "U+0170", "U+0172", "U+0174", "U+0176", "U+0178", "U+0179", "U+017B", "U+017D", "Ɓ", "Ƃ",
      "Ƅ", "Ɔ", "Ƈ", "Ɖ", "Ɗ", "Ƌ", "Ǝ", "Ə", "Ɛ", "Ƒ", "Ɠ", "Ɣ",
      "Ɩ", "Ɨ", "Ƙ", "Ɯ", "Ɲ", "Ɵ", "Ơ", "Ƣ", "Ƥ", "Ʀ", "Ƨ", "Ʃ",
      "Ƭ", "Ʈ", "Ư", "Ʊ", "Ʋ", "Ƴ", "Ƶ", "Ʒ", "Ƹ", "Ƽ", "Ǆ", "ǅ",
      "Ǉ", "ǈ", "Ǌ", "ǋ", "Ǎ", "Ǐ", "Ǒ", "Ǔ", "Ǖ", "Ǘ", "Ǚ", "Ǜ",
      "Ǟ", "Ǡ", "Ǣ", "Ǥ", "Ǧ", "Ǩ", "Ǫ", "Ǭ", "Ǯ", "Ǳ", "ǲ", "Ǵ",
      "Ƕ", "Ƿ", "Ǹ", "Ǻ", "Ǽ", "Ǿ", "U+0200", "U+0202", "U+0204", "U+0206", "U+0208", "U+020A",
      "U+020C", "U+020E", "U+0210", "U+0212", "U+0214", "U+0216", "U+0218", "U+021A", "U+021C", "U+021E", "U+0220", "U+0222",
      "U+0224", "U+0226", "U+0228", "U+022A", "U+022C", "U+022E", "U+0230", "U+0232", "U+023A", "U+023B", "U+023D", "U+023E",
      "U+0241", "U+0243", "U+0244", "U+0245", "U+0246", "U+0248", "U+024A", "U+024C", "U+024E", "U+0370", "U+0372", "U+0376",
      "U+037F", "Ά", "Έ", "Ή", "Ί", "Ό", "Ύ", "Ώ", "Α", "Β", "Γ", "Δ",
      "Ε", "Ζ", "Η", "Θ", "Ι", "Κ", "Λ", "Μ", "Ν", "Ξ", "Ο", "Π",
      "Ρ", "Σ", "Τ", "Υ", "Φ", "Χ", "Ψ", "Ω", "Ϊ", "Ϋ", "Ϗ", "Ϙ",
      "Ϛ", "Ϝ", "Ϟ", "Ϡ", "Ϣ", "Ϥ", "Ϧ", "Ϩ", "Ϫ", "Ϭ", "Ϯ", "ϴ",
      "Ϸ", "Ϲ", "Ϻ", "Ͻ", "Ͼ", "Ͽ", "U+0400", "U+0401", "U+0402", "U+0403", "U+0404", "U+0405",
      "U+0406", "U+0407", "U+0408", "U+0409", "U+040A", "U+040B", "U+040C", "U+040D", "U+040E", "U+040F", "U+0410", "U+0411",
      "U+0412", "U+0413", "U+0414", "U+0415", "U+0416", "U+0417", "U+0418", "U+0419", "U+041A", "U+041B", "U+041C", "U+041D",
      "U+041E", "U+041F", "U+0420", "U+0421", "U+0422", "U+0423", "U+0424", "U+0425", "U+0426", "U+0427", "U+0428", "U+0429",
      "U+042A", "U+042B", "U+042C", "U+042D", "U+042E", "U+042F", "U+0460", "U+0462", "U+0464", "U+0466", "U+0468", "U+046A",
      "U+046C", "U+046E", "U+0470", "U+0472", "U+0474", "U+0476", "U+0478", "U+047A", "U+047C", "U+047E", "Ҁ", "Ҋ",
      "Ҍ", "Ҏ", "Ґ", "Ғ", "Ҕ", "Җ", "Ҙ", "Қ", "Ҝ", "Ҟ", "Ҡ", "Ң",
      "Ҥ", "Ҧ", "Ҩ", "Ҫ", "Ҭ", "Ү", "Ұ", "Ҳ", "Ҵ", "Ҷ", "Ҹ", "Һ",
      "Ҽ", "Ҿ", "Ӏ", "Ӂ", "Ӄ", "Ӆ", "Ӈ", "Ӊ", "Ӌ", "Ӎ", "Ӑ", "Ӓ",
      "Ӕ", "Ӗ", "Ә", "Ӛ", "Ӝ", "Ӟ", "Ӡ", "Ӣ", "Ӥ", "Ӧ", "Ө", "Ӫ",
      "Ӭ", "Ӯ", "Ӱ", "Ӳ", "Ӵ", "Ӷ", "Ӹ", "Ӻ", "Ӽ", "Ӿ", "U+0500", "U+0502",
      "U+0504", "U+0506", "U+0508", "U+050A", "U+050C", "U+050E", "U+0510", "U+0512", "U+0514", "U+0516", "U+0518", "U+051A",
      "U+051C", "U+051E", "U+0520", "U+0522", "U+0524", "U+0526", "U+0528", "U+052A", "U+052C", "U+052E", "U+0531", "U+0532",
      "U+0533", "U+0534", "U+0535", "U+0536", "U+0537", "U+0538", "U+0539", "U+053A", "U+053B", "U+053C", "U+053D", "U+053E",
      "U+053F", "U+0540", "U+0541", "U+0542", "U+0543", "U+0544", "U+0545", "U+0546", "U+0547", "U+0548", "U+0549", "U+054A",
      "U+054B", "U+054C", "U+054D", "U+054E", "U+054F", "U+0550", "U+0551", "U+0552", "U+0553", "U+0554", "U+0555", "U+0556",
      "Ⴀ", "Ⴁ", "Ⴂ", "Ⴃ", "Ⴄ", "Ⴅ", "Ⴆ", "Ⴇ", "Ⴈ", "Ⴉ", "Ⴊ", "Ⴋ",
      "Ⴌ", "Ⴍ", "Ⴎ", "Ⴏ", "Ⴐ", "Ⴑ", "Ⴒ", "Ⴓ", "Ⴔ", "Ⴕ", "Ⴖ", "Ⴗ",
      "Ⴘ", "Ⴙ", "Ⴚ", "Ⴛ", "Ⴜ", "Ⴝ", "Ⴞ", "Ⴟ", "Ⴠ", "Ⴡ", "Ⴢ", "Ⴣ",
      "Ⴤ", "Ⴥ", "Ⴧ", "Ⴭ", "Ꭰ", "Ꭱ", "Ꭲ", "Ꭳ", "Ꭴ", "Ꭵ", "Ꭶ", "Ꭷ",
      "Ꭸ", "Ꭹ", "Ꭺ", "Ꭻ", "Ꭼ", "Ꭽ", "Ꭾ", "Ꭿ", "Ꮀ", "Ꮁ", "Ꮂ", "Ꮃ",
      "Ꮄ", "Ꮅ", "Ꮆ", "Ꮇ", "Ꮈ", "Ꮉ", "Ꮊ", "Ꮋ", "Ꮌ", "Ꮍ", "Ꮎ", "Ꮏ",
      "Ꮐ", "Ꮑ", "Ꮒ", "Ꮓ", "Ꮔ", "Ꮕ", "Ꮖ", "Ꮗ", "Ꮘ", "Ꮙ", "Ꮚ", "Ꮛ",
      "Ꮜ", "Ꮝ", "Ꮞ", "Ꮟ", "Ꮠ", "Ꮡ", "Ꮢ", "Ꮣ", "Ꮤ", "Ꮥ", "Ꮦ", "Ꮧ",
      "Ꮨ", "Ꮩ", "Ꮪ", "Ꮫ", "Ꮬ", "Ꮭ", "Ꮮ", "Ꮯ", "Ꮰ", "Ꮱ", "Ꮲ", "Ꮳ",
      "Ꮴ", "Ꮵ", "Ꮶ", "Ꮷ", "Ꮸ", "Ꮹ", "Ꮺ", "Ꮻ", "Ꮼ", "Ꮽ", "Ꮾ", "Ꮿ",
      "Ᏸ", "Ᏹ", "Ᏺ", "Ᏻ", "Ᏼ", "Ᏽ", "Ა", "Ბ", "Გ", "Დ", "Ე", "Ვ",
      "Ზ", "Თ", "Ი", "Კ", "Ლ", "Მ", "Ნ", "Ო", "Პ", "Ჟ", "Რ", "Ს",
      "Ტ", "Უ", "Ფ", "Ქ", "Ღ", "Ყ", "Შ", "Ჩ", "Ც", "Ძ", "Წ", "Ჭ",
      "Ხ", "Ჯ", "Ჰ", "Ჱ", "Ჲ", "Ჳ", "Ჴ", "Ჵ", "Ჶ", "Ჷ", "Ჸ", "Ჹ",
      "Ჺ", "Ჽ", "Ჾ", "Ჿ", "U+1E00", "U+1E02", "U+1E04", "U+1E06", "U+1E08", "U+1E0A", "U+1E0C", "U+1E0E",
      "U+1E10", "U+1E12", "U+1E14", "U+1E16", "U+1E18", "U+1E1A", "U+1E1C", "U+1E1E", "U+1E20", "U+1E22", "U+1E24", "U+1E26",
      "U+1E28", "U+1E2A", "U+1E2C", "U+1E2E", "U+1E30", "U+1E32", "U+1E34", "U+1E36", "U+1E38", "U+1E3A", "U+1E3C", "U+1E3E",
      "U+1E40", "U+1E42", "U+1E44", "U+1E46", "U+1E48", "U+1E4A", "U+1E4C", "U+1E4E", "U+1E50", "U+1E52", "U+1E54", "U+1E56",
      "U+1E58", "U+1E5A", "U+1E5C", "U+1E5E", "U+1E60", "U+1E62", "U+1E64", "U+1E66", "U+1E68", "U+1E6A", "U+1E6C", "U+1E6E",
      "U+1E70", "U+1E72", "U+1E74", "U+1E76", "U+1E78", "U+1E7A", "U+1E7C", "U+1E7E", "Ẁ", "Ẃ", "Ẅ", "Ẇ",
      "Ẉ", "Ẋ", "Ẍ", "Ẏ", "Ẑ", "Ẓ", "Ẕ", "ẞ", "Ạ", "Ả", "Ấ", "Ầ",
      "Ẩ", "Ẫ", "Ậ", "Ắ", "Ằ", "Ẳ", "Ẵ", "Ặ", "Ẹ", "Ẻ", "Ẽ", "Ế",
      "Ề", "Ể", "Ễ", "Ệ", "Ỉ", "Ị", "Ọ", "Ỏ", "Ố", "Ồ", "Ổ", "Ỗ",
      "Ộ", "Ớ", "Ờ", "Ở", "Ỡ", "Ợ", "Ụ", "Ủ", "Ứ", "Ừ", "Ử", "Ữ",
      "Ự", "Ỳ", "Ỵ", "Ỷ", "Ỹ", "Ỻ", "Ỽ", "Ỿ", "U+1F08", "U+1F09", "U+1F0A", "U+1F0B",
      "U+1F0C", "U+1F0D", "U+1F0E", "U+1F0F", "U+1F18", "U+1F19", "U+1F1A", "U+1F1B", "U+1F1C", "U+1F1D", "U+1F28", "U+1F29",
      "U+1F2A", "U+1F2B", "U+1F2C", "U+1F2D", "U+1F2E", "U+1F2F", "U+1F38", "U+1F39", "U+1F3A", "U+1F3B", "U+1F3C", "U+1F3D",
      "U+1F3E", "U+1F3F", "U+1F48", "U+1F49", "U+1F4A", "U+1F4B", "U+1F4C", "U+1F4D", "U+1F59", "U+1F5B", "U+1F5D", "U+1F5F",
      "U+1F68", "U+1F69", "U+1F6A", "U+1F6B", "U+1F6C", "U+1F6D", "U+1F6E", "U+1F6F", "ᾈ", "ᾉ", "ᾊ", "ᾋ",
      "ᾌ", "ᾍ", "ᾎ", "ᾏ", "ᾘ", "ᾙ", "ᾚ", "ᾛ", "ᾜ", "ᾝ", "ᾞ", "ᾟ",
      "ᾨ", "ᾩ", "ᾪ", "ᾫ", "ᾬ", "ᾭ", "ᾮ", "ᾯ", "Ᾰ", "Ᾱ", "Ὰ", "Ά",
      "ᾼ", "Ὲ", "Έ", "Ὴ", "Ή", "ῌ", "Ῐ", "Ῑ", "Ὶ", "Ί", "Ῠ", "Ῡ",
      "Ὺ", "Ύ", "Ῥ", "Ὸ", "Ό", "Ὼ", "Ώ", "ῼ", "U+2126", "U+212A", "U+212B", "U+2132",
      "U+2160", "U+2161", "U+2162", "U+2163", "U+2164", "U+2165", "U+2166", "U+2167", "U+2168", "U+2169", "U+216A", "U+216B",
      "U+216C", "U+216D", "U+216E", "U+216F", "Ↄ", "Ⓐ", "Ⓑ", "Ⓒ", "Ⓓ", "Ⓔ", "Ⓕ", "Ⓖ",
      "Ⓗ", "Ⓘ", "Ⓙ", "Ⓚ", "Ⓛ", "Ⓜ", "Ⓝ", "Ⓞ", "Ⓟ", "Ⓠ", "Ⓡ", "Ⓢ",
      "Ⓣ", "Ⓤ", "Ⓥ", "Ⓦ", "Ⓧ", "Ⓨ", "Ⓩ", "U+2C00", "U+2C01", "U+2C02", "U+2C03", "U+2C04",
      "U+2C05", "U+2C06", "U+2C07", "U+2C08", "U+2C09", "U+2C0A", "U+2C0B", "U+2C0C", "U+2C0D", "U+2C0E", "U+2C0F", "U+2C10",
      "U+2C11", "U+2C12", "U+2C13", "U+2C14", "U+2C15", "U+2C16", "U+2C17", "U+2C18", "U+2C19", "U+2C1A", "U+2C1B", "U+2C1C",
      "U+2C1D", "U+2C1E", "U+2C1F", "U+2C20", "U+2C21", "U+2C22", "U+2C23", "U+2C24", "U+2C25", "U+2C26", "U+2C27", "U+2C28",
      "U+2C29", "U+2C2A", "U+2C2B", "U+2C2C", "U+2C2D", "U+2C2E", "U+2C2F", "U+2C60", "U+2C62", "U+2C63", "U+2C64", "U+2C67",
      "U+2C69", "U+2C6B", "U+2C6D", "U+2C6E", "U+2C6F", "U+2C70", "U+2C72", "U+2C75", "U+2C7E", "U+2C7F", "Ⲁ", "Ⲃ",
      "Ⲅ", "Ⲇ", "Ⲉ", "Ⲋ", "Ⲍ", "Ⲏ", "Ⲑ", "Ⲓ", "Ⲕ", "Ⲗ", "Ⲙ", "Ⲛ",
      "Ⲝ", "Ⲟ", "Ⲡ", "Ⲣ", "Ⲥ", "Ⲧ", "Ⲩ", "Ⲫ", "Ⲭ", "Ⲯ", "Ⲱ", "Ⲳ",
      "Ⲵ", "Ⲷ", "Ⲹ", "Ⲻ", "Ⲽ", "Ⲿ", "Ⳁ", "Ⳃ", "Ⳅ", "Ⳇ", "Ⳉ", "Ⳋ",
      "Ⳍ", "Ⳏ", "Ⳑ", "Ⳓ", "Ⳕ", "Ⳗ", "Ⳙ", "Ⳛ", "Ⳝ", "Ⳟ", "Ⳡ", "Ⳣ",
      "Ⳬ", "Ⳮ", "Ⳳ", "U+A640", "U+A642", "U+A644", "U+A646", "U+A648", "U+A64A", "U+A64C", "U+A64E", "U+A650",
      "U+A652", "U+A654", "U+A656", "U+A658", "U+A65A", "U+A65C", "U+A65E", "U+A660", "U+A662", "U+A664", "U+A666", "U+A668",
      "U+A66A", "U+A66C", "Ꚁ", "Ꚃ", "Ꚅ", "Ꚇ", "Ꚉ", "Ꚋ", "Ꚍ", "Ꚏ", "Ꚑ", "Ꚓ",
      "Ꚕ", "Ꚗ", "Ꚙ", "Ꚛ", "U+A722", "U+A724", "U+A726", "U+A728", "U+A72A", "U+A72C", "U+A72E", "U+A732",
      "U+A734", "U+A736", "U+A738", "U+A73A", "U+A73C", "U+A73E", "U+A740", "U+A742", "U+A744", "U+A746", "U+A748", "U+A74A",
      "U+A74C", "U+A74E", "U+A750", "U+A752", "U+A754", "U+A756", "U+A758", "U+A75A", "U+A75C", "U+A75E", "U+A760", "U+A762",
      "U+A764", "U+A766", "U+A768", "U+A76A", "U+A76C", "U+A76E", "U+A779", "U+A77B", "U+A77D", "U+A77E", "Ꞁ", "Ꞃ",
      "Ꞅ", "Ꞇ", "Ꞌ", "Ɥ", "Ꞑ", "Ꞓ", "Ꞗ", "Ꞙ", "Ꞛ", "Ꞝ", "Ꞟ", "Ꞡ",
      "Ꞣ", "Ꞥ", "Ꞧ", "Ꞩ", "Ɦ", "Ɜ", "Ɡ", "Ɬ", "Ɪ", "Ʞ", "Ʇ", "Ʝ",
      "Ꭓ", "Ꞵ", "Ꞷ", "Ꞹ", "Ꞻ", "Ꞽ", "Ꞿ", "Ꟁ", "Ꟃ", "Ꞔ", "Ʂ", "Ᶎ",
      "Ꟈ", "Ꟊ", "Ꟑ", "Ꟗ", "Ꟙ", "Ꟶ", "U+FF21", "U+FF22", "U+FF23", "U+FF24", "U+FF25", "U+FF26",
      "U+FF27", "U+FF28", "U+FF29", "U+FF2A", "U+FF2B", "U+FF2C", "U+FF2D", "U+FF2E", "U+FF2F", "U+FF30", "U+FF31", "U+FF32",
      "U+FF33", "U+FF34", "U+FF35", "U+FF36", "U+FF37", "U+FF38", "U+FF39", "U+FF3A", "U+10400", "U+10401", "U+10402", "U+10403",
      "U+10404", "U+10405", "U+10406", "U+10407", "U+10408", "U+10409", "U+1040A", "U+1040B", "U+1040C", "U+1040D", "U+1040E", "U+1040F",
      "U+10410", "U+10411", "U+10412", "U+10413", "U+10414", "U+10415", "U+10416", "U+10417", "U+10418", "U+10419", "U+1041A", "U+1041B",
      "U+1041C", "U+1041D", "U+1041E", "U+1041F", "U+10420", "U+10421", "U+10422", "U+10423", "U+10424", "U+10425", "U+10426", "U+10427",
      "U+104B0", "U+104B1", "U+104B2", "U+104B3", "U+104B4", "U+104B5", "U+104B6", "U+104B7", "U+104B8", "U+104B9", "U+104BA", "U+104BB",
      "U+104BC", "U+104BD", "U+104BE", "U+104BF", "U+104C0", "U+104C1", "U+104C2", "U+104C3", "U+104C4", "U+104C5", "U+104C6", "U+104C7",
      "U+104C8", "U+104C9", "U+104CA", "U+104CB", "U+104CC", "U+104CD", "U+104CE", "U+104CF", "U+104D0", "U+104D1", "U+104D2", "U+104D3",
      "U+10570", "U+10571", "U+10572", "U+10573", "U+10574", "U+10575", "U+10576", "U+10577", "U+10578", "U+10579", "U+1057A", "U+1057C",
      "U+1057D", "U+1057E", "U+1057F", "U+10580", "U+10581", "U+10582", "U+10583", "U+10584", "U+10585", "U+10586", "U+10587", "U+10588",
      "U+10589", "U+1058A", "U+1058C", "U+1058D", "U+1058E", "U+1058F", "U+10590", "U+10591", "U+10592", "U+10594", "U+10595", "U+10C80",
      "U+10C81", "U+10C82", "U+10C83", "U+10C84", "U+10C85", "U+10C86", "U+10C87", "U+10C88", "U+10C89", "U+10C8A", "U+10C8B", "U+10C8C",
      "U+10C8D", "U+10C8E", "U+10C8F", "U+10C90", "U+10C91", "U+10C92", "U+10C93", "U+10C94", "U+10C95", "U+10C96", "U+10C97", "U+10C98",
      "U+10C99", "U+10C9A", "U+10C9B", "U+10C9C", "U+10C9D", "U+10C9E", "U+10C9F", "U+10CA0", "U+10CA1", "U+10CA2", "U+10CA3", "U+10CA4",
      "U+10CA5", "U+10CA6", "U+10CA7", "U+10CA8", "U+10CA9", "U+10CAA", "U+10CAB", "U+10CAC", "U+10CAD", "U+10CAE", "U+10CAF", "U+10CB0",
      "U+10CB1", "U+10CB2", "U+118A0", "U+118A1", "U+118A2", "U+118A3", "U+118A4", "U+118A5", "U+118A6", "U+118A7", "U+118A8", "U+118A9",
      "U+118AA", "U+118AB", "U+118AC", "U+118AD", "U+118AE", "U+118AF", "U+118B0", "U+118B1", "U+118B2", "U+118B3", "U+118B4", "U+118B5",
      "U+118B6", "U+118B7", "U+118B8", "U+118B9", "U+118BA", "U+118BB", "U+118BC", "U+118BD", "U+118BE", "U+118BF", "U+16E40", "U+16E41",
      "U+16E42", "U+16E43", "U+16E44", "U+16E45", "U+16E46", "U+16E47", "U+16E48", "U+16E49", "U+16E4A", "U+16E4B", "U+16E4C", "U+16E4D",
      "U+16E4E", "U+16E4F", "U+16E50", "U+16E51", "U+16E52", "U+16E53", "U+16E54", "U+16E55", "U+16E56", "U+16E57", "U+16E58", "U+16E59",
      "U+16E5A", "U+16E5B", "U+16E5C", "U+16E5D", "U+16E5E", "U+16E5F", "U+1E900", "U+1E901", "U+1E902", "U+1E903", "U+1E904", "U+1E905",
      "U+1E906", "U+1E907", "U+1E908", "U+1E909", "U+1E90A", "U+1E90B", "U+1E90C", "U+1E90D", "U+1E90E", "U+1E90F", "U+1E910", "U+1E911",
      "U+1E912", "U+1E913", "U+1E914", "U+1E915", "U+1E916", "U+1E917", "U+1E918", "U+1E919", "U+1E91A", "U+1E91B", "U+1E91C", "U+1E91D",
      "U+1E91E", "U+1E91F", "U+1E920", "U+1E921">>

\* ... and what it changes each into
LowerSeq ==
    <<"a", "b", "c", "d", "e", "f", "g", "h", "i", "j", "k", "l",
      "m", "n", "o", "p", "q", "r", "s", "t", "u", "v", "w", "x",
      "y", "z", "à", "á", "â", "ã", "ä", "å", "æ", "ç", "è", "é",
      "ê", "ë", "ì", "í", "î", "ï", "ð", "ñ", "ò", "ó", "ô", "õ",
      "ö", "ø", "ù", "ú", "û", "ü", "ý", "þ", "U+0101", "U+0103", "U+0105", "U+0107",
      "U+0109", "U+010B", "U+010D", "U+010F", "U+0111", "U+0113", "U+0115", "U+0117", "U+0119", "U+011B", "U+011D", "U+011F",
      "U+0121", "U+0123", "U+0125", "U+0127", "U+0129", "U+012B", "U+012D", "U+012F", "U+0133", "U+0135", "U+0137", "U+013A",
      "U+013C", "U+013E", "U+0140", "U+0142", "U+0144", "U+0146", "U+0148", "U+014B", "U+014D", "U+014F", "U+0151", "U+0153",
      "U+0155", "U+0157", "U+0159", "U+015B", "U+015D", "U+015F", "U+0161", "U+0163", "U+0165", "U+0167", "U+0169", "U+016B",
      "U+016D", "U+016F", "U+0171", "U+0173", "U+0175", "U+0177", "ÿ", "U+017A", "U+017C", "U+017E", "U+0253", "ƃ",
      "ƅ", "U+0254", "ƈ", "U+0256", "U+0257", "ƌ", "ǝ", "U+0259", "U+025B", "ƒ", "U+0260", "U+0263",
      "U+0269", "U+0268", "ƙ", "U+026F", "U+0272", "U+0275", "ơ", "ƣ", "ƥ", "ʀ", "ƨ", "ʃ",
      "ƭ", "ʈ", "ư", "ʊ", "ʋ", "ƴ", "ƶ", "ʒ", "ƹ", "ƽ", "ǆ", "ǆ",
      "ǉ", "ǉ", "ǌ", "ǌ", "ǎ", "ǐ", "ǒ", "ǔ", "ǖ", "ǘ", "ǚ", "ǜ",
      "ǟ", "ǡ", "ǣ", "ǥ", "ǧ", "ǩ", "ǫ", "ǭ", "ǯ", "ǳ", "ǳ", "ǵ",
      "ƕ", "ƿ", "ǹ", "ǻ", "ǽ", "ǿ", "U+0201", "U+0203", "U+0205", "U+0207", "U+0209", "U+020B",
      "U+020D", "U+020F", "U+0211", "U+0213", "U+0215", "U+0217", "U+0219", "U+021B", "U+021D", "U+021F", "ƞ", "U+0223",
      "U+0225", "U+0227", "U+0229", "U+022B", "U+022D", "U+022F", "U+0231", "U+0233", "U+2C65", "U+023C", "ƚ", "U+2C66",
      "U+0242", "ƀ", "ʉ", "ʌ", "U+0247", "U+0249", "U+024B", "U+024D", "U+024F", "U+0371", "U+0373", "U+0377",
      "ϳ", "ά", "έ", "ή", "ί", "ό", "ύ", "ώ", "α", "β", "γ", "δ",
      "ε", "ζ", "η", "θ", "ι", "κ", "λ", "μ", "ν", "ξ", "ο", "π",
      "ρ", "σ", "τ", "υ", "φ", "χ", "ψ", "ω", "ϊ", "ϋ", "ϗ", "ϙ",
      "ϛ", "ϝ", "ϟ", "ϡ", "ϣ", "ϥ", "ϧ", "ϩ", "ϫ", "ϭ", "ϯ", "θ",
      "ϸ", "ϲ", "ϻ", "U+037B", "U+037C", "U+037D", "U+0450", "U+0451", "U+0452", "U+0453", "U+0454", "U+0455",
      "U+0456", "U+0457", "U+0458", "U+0459", "U+045A", "U+045B", "U+045C", "U+045D", "U+045E", "U+045F", "U+0430", "U+0431",
      "U+0432", "U+0433", "U+0434", "U+0435", "U+0436", "U+0437", "U+0438", "U+0439", "U+043A", "U+043B", "U+043C", "U+043D",
      "U+043E", "U+043F", "U+0440", "U+0441", "U+0442", "U+0443", "U+0444", "U+0445", "U+0446", "U+0447", "U+0448", "U+0449",
      "U+044A", "U+044B", "U+044C", "U+044D", "U+044E", "U+044F", "U+0461", "U+0463", "U+0465", "U+0467", "U+0469", "U+046B",
      "U+046D", "U+046F", "U+0471", "U+0473", "U+0475", "U+0477", "U+0479", "U+047B", "U+047D", "U+047F", "ҁ", "ҋ",
      "ҍ", "ҏ", "ґ", "ғ", "ҕ", "җ", "ҙ", "қ", "ҝ", "ҟ", "ҡ", "ң",
      "ҥ", "ҧ", "ҩ", "ҫ", "ҭ", "ү", "ұ", "ҳ", "ҵ", "ҷ", "ҹ", "һ",
      "ҽ", "ҿ", "ӏ", "ӂ", "ӄ", "ӆ", "ӈ", "ӊ", "ӌ", "ӎ", "ӑ", "ӓ",
      "ӕ", "ӗ", "ә", "ӛ", "ӝ", "ӟ", "ӡ", "ӣ", "ӥ", "ӧ", "ө", "ӫ",
      "ӭ", "ӯ", "ӱ", "ӳ", "ӵ", "ӷ", "ӹ", "ӻ", "ӽ", "ӿ", "U+0501", "U+0503",
      "U+0505", "U+0507", "U+0509", "U+050B", "U+050D", "U+050F", "U+0511", "U+0513", "U+0515", "U+0517", "U+0519", "U+051B",
      "U+051D", "U+051F", "U+0521", "U+0523", "U+0525", "U+0527", "U+0529", "U+052B", "U+052D", "U+052F", "U+0561", "U+0562",
      "U+0563", "U+0564", "U+0565", "U+0566", "U+0567", "U+0568", "U+0569", "U+056A", "U+056B", "U+056C", "U+056D", "U+056E",
      "U+056F", "U+0570", "U+0571", "U+0572", "U+0573", "U+0574", "U+0575", "U+0576", "U+0577", "U+0578", "U+0579", "U+057A",
      "U+057B", "U+057C", "U+057D", "U+057E", "U+057F", "ր", "ց", "ւ", "փ", "ք", "օ", "ֆ",
      "U+2D00", "U+2D01", "U+2D02", "U+2D03", "U+2D04", "U+2D05", "U+2D06", "U+2D07", "U+2D08", "U+2D09", "U+2D0A", "U+2D0B",
      "U+2D0C", "U+2D0D", "U+2D0E", "U+2D0F", "U+2D10", "U+2D11", "U+2D12", "U+2D13", "U+2D14", "U+2D15", "U+2D16", "U+2D17",
      "U+2D18", "U+2D19", "U+2D1A", "U+2D1B", "U+2D1C", "U+2D1D", "U+2D1E", "U+2D1F", "U+2D20", "U+2D21", "U+2D22", "U+2D23",
      "U+2D24", "U+2D25", "U+2D27", "U+2D2D", "U+AB70", "U+AB71", "U+AB72", "U+AB73", "U+AB74", "U+AB75", "U+AB76", "U+AB77",
      "U+AB78", "U+AB79", "U+AB7A", "U+AB7B", "U+AB7C", "U+AB7D", "U+AB7E", "U+AB7F", "ꮀ", "ꮁ", "ꮂ", "ꮃ",
      "ꮄ", "ꮅ", "ꮆ", "ꮇ", "ꮈ", "ꮉ", "ꮊ", "ꮋ", "ꮌ", "ꮍ", "ꮎ", "ꮏ",
      "ꮐ", "ꮑ", "ꮒ", "ꮓ", "ꮔ", "ꮕ", "ꮖ", "ꮗ", "ꮘ", "ꮙ", "ꮚ", "ꮛ",
      "ꮜ", "ꮝ", "ꮞ", "ꮟ", "ꮠ", "ꮡ", "ꮢ", "ꮣ", "ꮤ", "ꮥ", "ꮦ", "ꮧ",
      "ꮨ", "ꮩ", "ꮪ", "ꮫ", "ꮬ", "ꮭ", "ꮮ", "ꮯ", "ꮰ", "ꮱ", "ꮲ", "ꮳ",
      "ꮴ", "ꮵ", "ꮶ", "ꮷ", "ꮸ", "ꮹ", "ꮺ", "ꮻ", "ꮼ", "ꮽ", "ꮾ", "ꮿ",
      "ᏸ", "ᏹ", "ᏺ", "ᏻ", "ᏼ", "ᏽ", "ა", "ბ", "გ", "დ", "ე", "ვ",
      "ზ", "თ", "ი", "კ", "ლ", "მ", "ნ", "ო", "პ", "ჟ", "რ", "ს",
      "ტ", "უ", "ფ", "ქ", "ღ", "ყ", "შ", "ჩ", "ც", "ძ", "წ", "ჭ",
      "ხ", "ჯ", "ჰ", "ჱ", "ჲ", "ჳ", "ჴ", "ჵ", "ჶ", "ჷ", "ჸ", "ჹ",
      "ჺ", "ჽ", "ჾ", "ჿ", "U+1E01", "U+1E03", "U+1E05", "U+1E07", "U+1E09", "U+1E0B", "U+1E0D", "U+1E0F",
      "U+1E11", "U+1E13", "U+1E15", "U+1E17", "U+1E19", "U+1E1B", "U+1E1D", "U+1E1F", "U+1E21", "U+1E23", "U+1E25", "U+1E27",
      "U+1E29", "U+1E2B", "U+1E2D", "U+1E2F", "U+1E31", "U+1E33", "U+1E35", "U+1E37", "U+1E39", "U+1E3B", "U+1E3D", "U+1E3F",
      "U+1E41", "U+1E43", "U+1E45", "U+1E47", "U+1E49", "U+1E4B", "U+1E4D", "U+1E4F", "U+1E51", "U+1E53", "U+1E55", "U+1E57",
      "U+1E59", "U+1E5B", "U+1E5D", "U+1E5F", "U+1E61", "U+1E63", "U+1E65", "U+1E67", "U+1E69", "U+1E6B", "U+1E6D", "U+1E6F",
      "U+1E71", "U+1E73", "U+1E75", "U+1E77", "U+1E79", "U+1E7B", "U+1E7D", "U+1E7F", "ẁ", "ẃ", "ẅ", "ẇ",
      "ẉ", "ẋ", "ẍ", "ẏ", "ẑ", "ẓ", "ẕ", "ß", "ạ", "ả", "ấ", "ầ",
      "ẩ", "ẫ", "ậ", "ắ", "ằ", "ẳ", "ẵ", "ặ", "ẹ", "ẻ", "ẽ", "ế",
      "ề", "ể", "ễ", "ệ", "ỉ", "ị", "ọ", "ỏ", "ố", "ồ", "ổ", "ỗ",
      "ộ", "ớ", "ờ", "ở", "ỡ", "ợ", "ụ", "ủ", "ứ", "ừ", "ử", "ữ",
      "ự", "ỳ", "ỵ", "ỷ", "ỹ", "ỻ", "ỽ", "ỿ", "U+1F00", "U+1F01", "U+1F02", "U+1F03",
      "U+1F04", "U+1F05", "U+1F06", "U+1F07", "U+1F10", "U+1F11", "U+1F12", "U+1F13", "U+1F14", "U+1F15", "U+1F20", "U+1F21",
      "U+1F22", "U+1F23", "U+1F24", "U+1F25", "U+1F26", "U+1F27", "U+1F30", "U+1F31", "U+1F32", "U+1F33", "U+1F34", "U+1F35",
      "U+1F36", "U+1F37", "U+1F40", "U+1F41", "U+1F42", "U+1F43", "U+1F44", "U+1F45", "U+1F51", "U+1F53", "U+1F55", "U+1F57",
      "U+1F60", "U+1F61", "U+1F62", "U+1F63", "U+1F64", "U+1F65", "U+1F66", "U+1F67", "ᾀ", "ᾁ", "ᾂ", "ᾃ",
      "ᾄ", "ᾅ", "ᾆ", "ᾇ", "ᾐ", "ᾑ", "ᾒ", "ᾓ", "ᾔ", "ᾕ", "ᾖ", "ᾗ",
      "ᾠ", "ᾡ", "ᾢ", "ᾣ", "ᾤ", "ᾥ", "ᾦ", "ᾧ", "ᾰ", "ᾱ", "U+1F70", "U+1F71",
      "ᾳ", "U+1F72", "U+1F73", "U+1F74", "U+1F75", "ῃ", "ῐ", "ῑ", "U+1F76", "U+1F77", "ῠ", "ῡ",
      "U+1F7A", "U+1F7B", "ῥ", "U+1F78", "U+1F79", "U+1F7C", "U+1F7D", "ῳ", "ω", "k", "å", "U+214E",
      "U+2170", "U+2171", "U+2172", "U+2173", "U+2174", "U+2175", "U+2176", "U+2177", "U+2178", "U+2179", "U+217A", "U+217B",
      "U+217C", "U+217D", "U+217E", "U+217F", "ↄ", "ⓐ", "ⓑ", "ⓒ", "ⓓ", "ⓔ", "ⓕ", "ⓖ",
      "ⓗ", "ⓘ", "ⓙ", "ⓚ", "ⓛ", "ⓜ", "ⓝ", "ⓞ", "ⓟ", "ⓠ", "ⓡ", "ⓢ",
      "ⓣ", "ⓤ", "ⓥ", "ⓦ", "ⓧ", "ⓨ", "ⓩ", "U+2C30", "U+2C31", "U+2C32", "U+2C33", "U+2C34",
      "U+2C35", "U+2C36", "U+2C37", "U+2C38", "U+2C39", "U+2C3A", "U+2C3B", "U+2C3C", "U+2C3D", "U+2C3E", "U+2C3F", "U+2C40",
      "U+2C41", "U+2C42", "U+2C43", "U+2C44", "U+2C45", "U+2C46", "U+2C47", "U+2C48", "U+2C49", "U+2C4A", "U+2C4B", "U+2C4C",
      "U+2C4D", "U+2C4E", "U+2C4F", "U+2C50", "U+2C51", "U+2C52", "U+2C53", "U+2C54", "U+2C55", "U+2C56", "U+2C57", "U+2C58",
      "U+2C59", "U+2C5A", "U+2C5B", "U+2C5C", "U+2C5D", "U+2C5E", "U+2C5F", "U+2C61", "U+026B", "U+1D7D", "U+027D", "U+2C68",
      "U+2C6A", "U+2C6C", "U+0251", "U+0271", "U+0250", "U+0252", "U+2C73", "U+2C76", "U+023F", "U+0240", "ⲁ", "ⲃ",
      "ⲅ", "ⲇ", "ⲉ", "ⲋ", "ⲍ", "ⲏ", "ⲑ", "ⲓ", "ⲕ", "ⲗ", "ⲙ", "ⲛ",
      "ⲝ", "ⲟ", "ⲡ", "ⲣ", "ⲥ", "ⲧ", "ⲩ", "ⲫ", "ⲭ", "ⲯ", "ⲱ", "ⲳ",
      "ⲵ", "ⲷ", "ⲹ", "ⲻ", "ⲽ", "ⲿ", "ⳁ", "ⳃ", "ⳅ", "ⳇ", "ⳉ", "ⳋ",
      "ⳍ", "ⳏ", "ⳑ", "ⳓ", "ⳕ", "ⳗ", "ⳙ", "ⳛ", "ⳝ", "ⳟ", "ⳡ", "ⳣ",
      "ⳬ", "ⳮ", "ⳳ", "U+A641", "U+A643", "U+A645", "U+A647", "U+A649", "U+A64B", "U+A64D", "U+A64F", "U+A651",
      "U+A653", "U+A655", "U+A657", "U+A659", "U+A65B", "U+A65D", "U+A65F", "U+A661", "U+A663", "U+A665", "U+A667", "U+A669",
      "U+A66B", "U+A66D", "ꚁ", "ꚃ", "ꚅ", "ꚇ", "ꚉ", "ꚋ", "ꚍ", "ꚏ", "ꚑ", "ꚓ",
      "ꚕ", "ꚗ", "ꚙ", "ꚛ", "U+A723", "U+A725", "U+A727", "U+A729", "U+A72B", "U+A72D", "U+A72F", "U+A733",
      "U+A735", "U+A737", "U+A739", "U+A73B", "U+A73D", "U+A73F", "U+A741", "U+A743", "U+A745", "U+A747", "U+A749", "U+A74B",
      "U+A74D", "U+A74F", "U+A751", "U+A753", "U+A755", "U+A757", "U+A759", "U+A75B", "U+A75D", "U+A75F", "U+A761", "U+A763",
      "U+A765", "U+A767", "U+A769", "U+A76B", "U+A76D", "U+A76F", "U+A77A", "U+A77C", "U+1D79", "U+A77F", "ꞁ", "ꞃ",
      "ꞅ", "ꞇ", "ꞌ", "U+0265", "ꞑ", "ꞓ", "ꞗ", "ꞙ", "ꞛ", "ꞝ", "ꞟ", "ꞡ",
      "ꞣ", "ꞥ", "ꞧ", "ꞩ", "U+0266", "U+025C", "U+0261", "U+026C", "U+026A", "ʞ", "ʇ", "ʝ",
      "U+AB53", "ꞵ", "ꞷ", "ꞹ", "ꞻ", "ꞽ", "ꞿ", "ꟁ", "ꟃ", "ꞔ", "ʂ", "ᶎ",
      "ꟈ", "ꟊ", "ꟑ", "ꟗ", "ꟙ", "ꟶ", "U+FF41", "U+FF42", "U+FF43", "U+FF44", "U+FF45", "U+FF46",
      "U+FF47", "U+FF48", "U+FF49", "U+FF4A", "U+FF4B", "U+FF4C", "U+FF4D", "U+FF4E", "U+FF4F", "U+FF50", "U+FF51", "U+FF52",
      "U+FF53", "U+FF54", "U+FF55", "U+FF56", "U+FF57", "U+FF58", "U+FF59", "U+FF5A", "U+10428", "U+10429", "U+1042A", "U+1042B",
      "U+1042C", "U+1042D", "U+1042E", "U+1042F", "U+10430", "U+10431", "U+10432", "U+10433", "U+10434", "U+10435", "U+10436", "U+10437",
      "U+10438", "U+10439", "U+1043A", "U+1043B", "U+1043C", "U+1043D", "U+1043E", "U+1043F", "U+10440", "U+10441", "U+10442", "U+10443",
      "U+10444", "U+10445", "U+10446", "U+10447", "U+10448", "U+10449", "U+1044A", "U+1044B", "U+1044C", "U+1044D", "U+1044E", "U+1044F",
      "U+104D8", "U+104D9", "U+104DA", "U+104DB", "U+104DC", "U+104DD", "U+104DE", "U+104DF", "U+104E0", "U+104E1", "U+104E2", "U+104E3",
      "U+104E4", "U+104E5", "U+104E6", "U+104E7", "U+104E8", "U+104E9", "U+104EA", "U+104EB", "U+104EC", "U+104ED", "U+104EE", "U+104EF",
      "U+104F0", "U+104F1", "U+104F2", "U+104F3", "U+104F4", "U+104F5", "U+104F6", "U+104F7", "U+104F8", "U+104F9", "U+104FA", "U+104FB",
      "U+10597", "U+10598", "U+10599", "U+1059A", "U+1059B", "U+1059C", "U+1059D", "U+1059E", "U+1059F", "U+105A0", "U+105A1", "U+105A3",
      "U+105A4", "U+105A5", "U+105A6", "U+105A7", "U+105A8", "U+105A9", "U+105AA", "U+105AB", "U+105AC", "U+105AD", "U+105AE", "U+105AF",
      "U+105B0", "U+105B1", "U+105B3", "U+105B4", "U+105B5", "U+105B6", "U+105B7", "U+105B8", "U+105B9", "U+105BB", "U+105BC", "U+10CC0",
      "U+10CC1", "U+10CC2", "U+10CC3", "U+10CC4", "U+10CC5", "U+10CC6", "U+10CC7", "U+10CC8", "U+10CC9", "U+10CCA", "U+10CCB", "U+10CCC",
      "U+10CCD", "U+10CCE", "U+10CCF", "U+10CD0", "U+10CD1", "U+10CD2", "U+10CD3", "U+10CD4", "U+10CD5", "U+10CD6", "U+10CD7", "U+10CD8",
      "U+10CD9", "U+10CDA", "U+10CDB", "U+10CDC", "U+10CDD", "U+10CDE", "U+10CDF", "U+10CE0", "U+10CE1", "U+10CE2", "U+10CE3", "U+10CE4",
      "U+10CE5", "U+10CE6", "U+10CE7", "U+10CE8", "U+10CE9", "U+10CEA", "U+10CEB", "U+10CEC", "U+10CED", "U+10CEE", "U+10CEF", "U+10CF0",
      "U+10CF1", "U+10CF2", "U+118C0", "U+118C1", "U+118C2", "U+118C3", "U+118C4", "U+118C5", "U+118C6", "U+118C7", "U+118C8", "U+118C9",
      "U+118CA", "U+118CB", "U+118CC", "U+118CD", "U+118CE", "U+118CF", "U+118D0", "U+118D1", "U+118D2", "U+118D3", "U+118D4", "U+118D5",
      "U+118D6", "U+118D7", "U+118D8", "U+118D9", "U+118DA", "U+118DB", "U+118DC", "U+118DD", "U+118DE", "U+118DF", "U+16E60", "U+16E61",
      "U+16E62", "U+16E63", "U+16E64", "U+16E65", "U+16E66", "U+16E67", "U+16E68", "U+16E69", "U+16E6A", "U+16E6B", "U+16E6C", "U+16E6D",
      "U+16E6E", "U+16E6F", "U+16E70", "U+16E71", "U+16E72", "U+16E73", "U+16E74", "U+16E75", "U+16E76", "U+16E77", "U+16E78", "U+16E79",
      "U+16E7A", "U+16E7B", "U+16E7C", "U+16E7D", "U+16E7E", "U+16E7F", "U+1E922", "U+1E923", "U+1E924", "U+1E925", "U+1E926", "U+1E927",
      "U+1E928", "U+1E929", "U+1E92A", "U+1E92B", "U+1E92C", "U+1E92D", "U+1E92E", "U+1E92F", "U+1E930", "U+1E931", "U+1E932", "U+1E933",
      "U+1E934", "U+1E935", "U+1E936", "U+1E937", "U+1E938", "U+1E939", "U+1E93A", "U+1E93B", "U+1E93C", "U+1E93D", "U+1E93E", "U+1E93F",
      "U+1E940", "U+1E941", "U+1E942", "U+1E943">>

\* the same as a function
LowerMap ==
    [c \in {UpperSeq[i] : i \in DOMAIN UpperSeq} |->
        LowerSeq[CHOOSE i \in DOMAIN UpperSeq : UpperSeq[i] = c]]

\* the characters with the Unicode property Cased that are not
\* Case_Ignorable
Cased ==
    {"A", "B", "C", "D", "E", "F", "G", "H", "I", "J", "K", "L",
     "M", "N", "O", "P", "Q", "R", "S", "T", "U", "V", "W", "X",
     "Y", "Z", "a", "b", "c", "d", "e", "f", "g", "h", "i", "j",
     "k", "l", "m", "n", "o", "p", "q", "r", "s", "t", "u", "v",
     "w", "x", "y", "z", "ª", "µ", "º", "À", "Á", "Â", "Ã", "Ä",
     "Å", "Æ", "Ç", "È", "É", "Ê", "Ë", "Ì", "Í", "Î", "Ï", "Ð",
     "Ñ", "Ò", "Ó", "Ô", "Õ", "Ö", "Ø", "Ù", "Ú", "Û", "Ü", "Ý",
     "Þ", "ß", "à", "á", "â", "ã", "ä", "å", "æ", "ç", "è", "é",
     "ê", "ë", "ì", "í", "î", "ï", "ð", "ñ", "ò", "ó", "ô", "õ",
     "ö", "ø", "ù", "ú", "û", "ü", "ý", "þ", "ÿ", "U+0100", "U+0101", "U+0102",
     "U+0103", "U+0104", "U+0105", "U+0106", "U+0107", "U+0108", "U+0109", "U+010A", "U+010B", "U+010C", "U+010D", "U+010E",
     "U+010F", "U+0110", "U+0111", "U+0112", "U+0113", "U+0114", "U+0115", "U+0116", "U+0117", "U+0118", "U+0119", "U+011A",
     "U+011B", "U+011C", "U+011D", "U+011E", "U+011F", "U+0120", "U+0121", "U+0122", "U+0123", "U+0124", "U+0125", "U+0126",
     "U+0127", "U+0128", "U+0129", "U+012A", "U+012B", "U+012C", "U+012D", "U+012E", "U+012F", "U+0130", "U+0131", "U+0132",
     "U+0133", "U+0134", "U+0135", "U+0136", "U+0137", "U+0138", "U+0139", "U+013A", "U+013B", "U+013C", "U+013D", "U+013E",
     "U+013F", "U+0140", "U+0141", "U+0142", "U+0143", "U+0144", "U+0145", "U+0146", "U+0147", "U+0148", "U+0149", "U+014A",
     "U+014B", "U+014C", "U+014D", "U+014E", "U+014F", "U+0150", "U+0151", "U+0152", "U+0153", "U+0154", "U+0155", "U+0156",
     "U+0157", "U+0158", "U+0159", "U+015A", "U+015B", "U+015C", "U+015D", "U+015E", "U+015F", "U+0160", "U+0161", "U+0162",
     "U+0163", "U+0164", "U+0165", "U+0166", "U+0167", "U+0168", "U+0169", "U+016A", "U+016B", "U+016C", "U+016D", "U+016E",
     "U+016F", "U+0170", "U+0171", "U+0172", "U+0173", "U+0174", "U+0175", "U+0176", "U+0177", "U+0178", "U+0179", "U+017A",
     "U+017B", "U+017C", "U+017D", "U+017E", "U+017F", "ƀ", "Ɓ", "Ƃ", "ƃ", "Ƅ", "ƅ", "Ɔ",
     "Ƈ", "ƈ", "Ɖ", "Ɗ", "Ƌ", "ƌ", "ƍ", "Ǝ", "Ə", "Ɛ", "Ƒ", "ƒ",
     "Ɠ", "Ɣ", "ƕ", "Ɩ", "Ɨ", "Ƙ", "ƙ", "ƚ", "ƛ", "Ɯ", "Ɲ", "ƞ",
     "Ɵ", "Ơ", "ơ", "Ƣ", "ƣ", "Ƥ", "ƥ", "Ʀ", "Ƨ", "ƨ", "Ʃ", "ƪ",
     "ƫ", "Ƭ", "ƭ", "Ʈ", "Ư", "ư", "Ʊ", "Ʋ", "Ƴ", "ƴ", "Ƶ", "ƶ",
     "Ʒ", "Ƹ", "ƹ", "ƺ", "Ƽ", "ƽ", "ƾ", "ƿ", "Ǆ", "ǅ", "ǆ", "Ǉ",
     "ǈ", "ǉ", "Ǌ", "ǋ", "ǌ", "Ǎ", "ǎ", "Ǐ", "ǐ", "Ǒ", "ǒ", "Ǔ",
     "ǔ", "Ǖ", "ǖ", "Ǘ", "ǘ", "Ǚ", "ǚ", "Ǜ", "ǜ", "ǝ", "Ǟ", "ǟ",
     "Ǡ", "ǡ", "Ǣ", "ǣ", "Ǥ", "ǥ", "Ǧ", "ǧ", "Ǩ", "ǩ", "Ǫ", "ǫ",
     "Ǭ", "ǭ", "Ǯ", "ǯ", "ǰ", "Ǳ", "ǲ", "ǳ", "Ǵ", "ǵ", "Ƕ", "Ƿ",
     "Ǹ", "ǹ", "Ǻ", "ǻ", "Ǽ", "ǽ", "Ǿ", "ǿ", "U+0200", "U+0201", "U+0202", "U+0203",
     "U+0204", "U+0205", "U+0206", "U+0207", "U+0208", "U+0209", "U+020A", "U+020B", "U+020C", "U+020D", "U+020E", "U+020F",
     "U+0210", "U+0211", "U+0212", "U+0213", "U+0214", "U+0215", "U+0216", "U+0217", "U+0218", "U+0219", "U+021A", "U+021B",
     "U+021C", "U+021D", "U+021E", "U+021F", "U+0220", "U+0221", "U+0222", "U+0223", "U+0224", "U+0225", "U+0226", "U+0227",
     "U+0228", "U+0229", "U+022A", "U+022B", "U+022C", "U+022D", "U+022E", "U+022F", "U+0230", "U+0231", "U+0232", "U+0233",
     "U+0234", "U+0235", "U+0236", "U+0237", "U+0238", "U+0239", "U+023A", "U+023B", "U+023C", "U+023D", "U+023E", "U+023F",
     "U+0240", "U+0241", "U+0242", "U+0243", "U+0244", "U+0245", "U+0246", "U+0247", "U+0248", "U+0249", "U+024A", "U+024B",
     "U+024C", "U+024D", "U+024E", "U+024F", "U+0250", "U+0251", "U+0252", "U+0253", "U+0254", "U+0255", "U+0256", "U+0257",
     "U+0258", "U+0259", "U+025A", "U+025B", "U+025C", "U+025D", "U+025E", "U+025F", "U+0260", "U+0261", "U+0262", "U+0263",
     "U+0264", "U+0265", "U+0266", "U+0267", "U+0268", "U+0269", "U+026A", "U+026B", "U+026C", "U+026D", "U+026E", "U+026F",
     "U+0270", "U+0271", "U+0272", "U+0273", "U+0274", "U+0275", "U+0276", "U+0277", "U+0278", "U+0279", "U+027A", "U+027B",
     "U+027C", "U+027D", "U+027E", "U+027F", "ʀ", "ʁ", "ʂ", "ʃ", "ʄ", "ʅ", "ʆ", "ʇ",
     "ʈ", "ʉ", "ʊ", "ʋ", "ʌ", "ʍ", "ʎ", "ʏ", "ʐ", "ʑ", "ʒ", "ʓ",
     "ʕ", "ʖ", "ʗ", "ʘ", "ʙ", "ʚ", "ʛ", "ʜ", "ʝ", "ʞ", "ʟ", "ʠ",
     "ʡ", "ʢ", "ʣ", "ʤ", "ʥ", "ʦ", "ʧ", "ʨ", "ʩ", "ʪ", "ʫ", "ʬ",
     "ʭ", "ʮ", "ʯ", "U+0370", "U+0371", "U+0372", "U+0373", "U+0376", "U+0377", "U+037B", "U+037C", "U+037D",
     "U+037F", "Ά", "Έ", "Ή", "Ί", "Ό", "Ύ", "Ώ", "ΐ", "Α", "Β", "Γ",
     "Δ", "Ε", "Ζ", "Η", "Θ", "Ι", "Κ", "Λ", "Μ", "Ν", "Ξ", "Ο",
     "Π", "Ρ", "Σ", "Τ", "Υ", "Φ", "Χ", "Ψ", "Ω", "Ϊ", "Ϋ", "ά",
     "έ", "ή", "ί", "ΰ", "α", "β", "γ", "δ", "ε", "ζ", "η", "θ",
     "ι", "κ", "λ", "μ", "ν", "ξ", "ο", "π", "ρ", "ς", "σ", "τ",
     "υ", "φ", "χ", "ψ", "ω", "ϊ", "ϋ", "ό", "ύ", "ώ", "Ϗ", "ϐ",
     "ϑ", "ϒ", "ϓ", "ϔ", "ϕ", "ϖ", "ϗ", "Ϙ", "ϙ", "Ϛ", "ϛ", "Ϝ",
     "ϝ", "Ϟ", "ϟ", "Ϡ", "ϡ", "Ϣ", "ϣ", "Ϥ", "ϥ", "Ϧ", "ϧ", "Ϩ",
     "ϩ", "Ϫ", "ϫ", "Ϭ", "ϭ", "Ϯ", "ϯ", "ϰ", "ϱ", "ϲ", "ϳ", "ϴ",
     "ϵ", "Ϸ", "ϸ", "Ϲ", "Ϻ", "ϻ", "ϼ", "Ͻ", "Ͼ", "Ͽ", "U+0400", "U+0401",
     "U+0402", "U+0403", "U+0404", "U+0405", "U+0406", "U+0407", "U+0408", "U+0409", "U+040A", "U+040B", "U+040C", "U+040D",
     "U+040E", "U+040F", "U+0410", "U+0411", "U+0412", "U+0413", "U+0414", "U+0415", "U+0416", "U+0417", "U+0418", "U+0419",
     "U+041A", "U+041B", "U+041C", "U+041D", "U+041E", "U+041F", "U+0420", "U+0421", "U+0422", "U+0423", "U+0424", "U+0425",
     "U+0426", "U+0427", "U+0428", "U+0429", "U+042A", "U+042B", "U+042C", "U+042D", "U+042E", "U+042F", "U+0430", "U+0431",
     "U+0432", "U+0433", "U+0434", "U+0435", "U+0436", "U+0437", "U+0438", "U+0439", "U+043A", "U+043B", "U+043C", "U+043D",
     "U+043E", "U+043F", "U+0440", "U+0441", "U+0442", "U+0443", "U+0444", "U+0445", "U+0446", "U+0447", "U+0448", "U+0449",
     "U+044A", "U+044B", "U+044C", "U+044D", "U+044E", "U+044F", "U+0450", "U+0451", "U+0452", "U+0453", "U+0454", "U+0455",
     "U+0456", "U+0457", "U+0458", "U+0459", "U+045A", "U+045B", "U+045C", "U+045D", "U+045E", "U+045F", "U+0460", "U+0461",
     "U+0462", "U+0463", "U+0464", "U+0465", "U+0466", "U+0467", "U+0468", "U+0469", "U+046A", "U+046B", "U+046C", "U+046D",
     "U+046E", "U+046F", "U+0470", "U+0471", "U+0472", "U+0473", "U+0474", "U+0475", "U+0476", "U+0477", "U+0478", "U+0479",
     "U+047A", "U+047B", "U+047C", "U+047D", "U+047E", "U+047F", "Ҁ", "ҁ", "Ҋ", "ҋ", "Ҍ", "ҍ",
     "Ҏ", "ҏ", "Ґ", "ґ", "Ғ", "ғ", "Ҕ", "ҕ", "Җ", "җ", "Ҙ", "ҙ",
     "Қ", "қ", "Ҝ", "ҝ", "Ҟ", "ҟ", "Ҡ", "ҡ", "Ң", "ң", "Ҥ", "ҥ",
     "Ҧ", "ҧ", "Ҩ", "ҩ", "Ҫ", "ҫ", "Ҭ", "ҭ", "Ү", "ү", "Ұ", "ұ",
     "Ҳ", "ҳ", "Ҵ", "ҵ", "Ҷ", "ҷ", "Ҹ", "ҹ", "Һ", "һ", "Ҽ", "ҽ",
     "Ҿ", "ҿ", "Ӏ", "Ӂ", "ӂ", "Ӄ", "ӄ", "Ӆ", "ӆ", "Ӈ", "ӈ", "Ӊ",
     "ӊ", "Ӌ", "ӌ", "Ӎ", "ӎ", "ӏ", "Ӑ", "ӑ", "Ӓ", "ӓ", "Ӕ", "ӕ",
     "Ӗ", "ӗ", "Ә", "ә", "Ӛ", "ӛ", "Ӝ", "ӝ", "Ӟ", "ӟ", "Ӡ", "ӡ",
     "Ӣ", "ӣ", "Ӥ", "ӥ", "Ӧ", "ӧ", "Ө", "ө", "Ӫ", "ӫ", "Ӭ", "ӭ",
     "Ӯ", "ӯ", "Ӱ", "ӱ", "Ӳ", "ӳ", "Ӵ", "ӵ", "Ӷ", "ӷ", "Ӹ", "ӹ",
     "Ӻ", "ӻ", "Ӽ", "ӽ", "Ӿ", "ӿ", "U+0500", "U+0501", "U+0502", "U+0503", "U+0504", "U+0505",
     "U+0506", "U+0507", "U+0508", "U+0509", "U+050A", "U+050B", "U+050C", "U+050D", "U+050E", "U+050F", "U+0510", "U+0511",
     "U+0512", "U+0513", "U+0514", "U+0515", "U+0516", "U+0517", "U+0518", "U+0519", "U+051A", "U+051B", "U+051C", "U+051D",
     "U+051E", "U+051F", "U+0520", "U+0521", "U+0522", "U+0523", "U+0524", "U+0525", "U+0526", "U+0527", "U+0528", "U+0529",
     "U+052A", "U+052B", "U+052C", "U+052D", "U+052E", "U+052F", "U+0531", "U+0532", "U+0533", "U+0534", "U+0535", "U+0536",
     "U+0537", "U+0538", "U+0539", "U+053A", "U+053B", "U+053C", "U+053D", "U+053E", "U+053F", "U+0540", "U+0541", "U+0542",
     "U+0543", "U+0544", "U+0545", "U+0546", "U+0547", "U+0548", "U+0549", "U+054A", "U+054B", "U+054C", "U+054D", "U+054E",
     "U+054F", "U+0550", "U+0551", "U+0552", "U+0553", "U+0554", "U+0555", "U+0556", "U+0560", "U+0561", "U+0562", "U+0563",
     "U+0564", "U+0565", "U+0566", "U+0567", "U+0568", "U+0569", "U+056A", "U+056B", "U+056C", "U+056D", "U+056E", "U+056F",
     "U+0570", "U+0571", "U+0572", "U+0573", "U+0574", "U+0575", "U+0576", "U+0577", "U+0578", "U+0579", "U+057A", "U+057B",
     "U+057C", "U+057D", "U+057E", "U+057F", "ր", "ց", "ւ", "փ", "ք", "օ", "ֆ", "և",
     "ֈ", "Ⴀ", "Ⴁ", "Ⴂ", "Ⴃ", "Ⴄ", "Ⴅ", "Ⴆ", "Ⴇ", "Ⴈ", "Ⴉ", "Ⴊ",
     "Ⴋ", "Ⴌ", "Ⴍ", "Ⴎ", "Ⴏ", "Ⴐ", "Ⴑ", "Ⴒ", "Ⴓ", "Ⴔ", "Ⴕ", "Ⴖ",
     "Ⴗ", "Ⴘ", "Ⴙ", "Ⴚ", "Ⴛ", "Ⴜ", "Ⴝ", "Ⴞ", "Ⴟ", "Ⴠ", "Ⴡ", "Ⴢ",
     "Ⴣ", "Ⴤ", "Ⴥ", "Ⴧ", "Ⴭ", "ა", "ბ", "გ", "დ", "ე", "ვ", "ზ",
     "თ", "ი", "კ", "ლ", "მ", "ნ", "ო", "პ", "ჟ", "რ", "ს", "ტ",
     "უ", "ფ", "ქ", "ღ", "ყ", "შ", "ჩ", "ც", "ძ", "წ", "ჭ", "ხ",
     "ჯ", "ჰ", "ჱ", "ჲ", "ჳ", "ჴ", "ჵ", "ჶ", "ჷ", "ჸ", "ჹ", "ჺ",
     "ჽ", "ჾ", "ჿ", "Ꭰ", "Ꭱ", "Ꭲ", "Ꭳ", "Ꭴ", "Ꭵ", "Ꭶ", "Ꭷ", "Ꭸ",
     "Ꭹ", "Ꭺ", "Ꭻ", "Ꭼ", "Ꭽ", "Ꭾ", "Ꭿ", "Ꮀ", "Ꮁ", "Ꮂ", "Ꮃ", "Ꮄ",
     "Ꮅ", "Ꮆ", "Ꮇ", "Ꮈ", "Ꮉ", "Ꮊ", "Ꮋ", "Ꮌ", "Ꮍ", "Ꮎ", "Ꮏ", "Ꮐ",
     "Ꮑ", "Ꮒ", "Ꮓ", "Ꮔ", "Ꮕ", "Ꮖ", "Ꮗ", "Ꮘ", "Ꮙ", "Ꮚ", "Ꮛ", "Ꮜ",
     "Ꮝ", "Ꮞ", "Ꮟ", "Ꮠ", "Ꮡ", "Ꮢ", "Ꮣ", "Ꮤ", "Ꮥ", "Ꮦ", "Ꮧ", "Ꮨ",
     "Ꮩ", "Ꮪ", "Ꮫ", "Ꮬ", "Ꮭ", "Ꮮ", "Ꮯ", "Ꮰ", "Ꮱ", "Ꮲ", "Ꮳ", "Ꮴ",
     "Ꮵ", "Ꮶ", "Ꮷ", "Ꮸ", "Ꮹ", "Ꮺ", "Ꮻ", "Ꮼ", "Ꮽ", "Ꮾ", "Ꮿ", "Ᏸ",
     "Ᏹ", "Ᏺ", "Ᏻ", "Ᏼ", "Ᏽ", "ᏸ", "ᏹ", "ᏺ", "ᏻ", "ᏼ", "ᏽ", "ᲀ",
     "ᲁ", "ᲂ", "ᲃ", "ᲄ", "ᲅ", "ᲆ", "ᲇ", "ᲈ", "Ა", "Ბ", "Გ", "Დ",
     "Ე", "Ვ", "Ზ", "Თ", "Ი", "Კ", "Ლ", "Მ", "Ნ", "Ო", "Პ", "Ჟ",
     "Რ", "Ს", "Ტ", "Უ", "Ფ", "Ქ", "Ღ", "Ყ", "Შ", "Ჩ", "Ც", "Ძ",
     "Წ", "Ჭ", "Ხ", "Ჯ", "Ჰ", "Ჱ", "Ჲ", "Ჳ", "Ჴ", "Ჵ", "Ჶ", "Ჷ",
     "Ჸ", "Ჹ", "Ჺ", "Ჽ", "Ჾ", "Ჿ", "U+1D00", "U+1D01", "U+1D02", "U+1D03", "U+1D04", "U+1D05",
     "U+1D06", "U+1D07", "U+1D08", "U+1D09", "U+1D0A", "U+1D0B", "U+1D0C", "U+1D0D", "U+1D0E", "U+1D0F", "U+1D10", "U+1D11",
     "U+1D12", "U+1D13", "U+1D14", "U+1D15", "U+1D16", "U+1D17", "U+1D18", "U+1D19", "U+1D1A", "U+1D1B", "U+1D1C", "U+1D1D",
     "U+1D1E", "U+1D1F", "U+1D20", "U+1D21", "U+1D22", "U+1D23", "U+1D24", "U+1D25", "U+1D26", "U+1D27", "U+1D28", "U+1D29",
     "U+1D2A", "U+1D2B", "U+1D6B", "U+1D6C", "U+1D6D", "U+1D6E", "U+1D6F", "U+1D70", "U+1D71", "U+1D72", "U+1D73", "U+1D74",
     "U+1D75", "U+1D76", "U+1D77", "U+1D79", "U+1D7A", "U+1D7B", "U+1D7C", "U+1D7D", "U+1D7E", "U+1D7F", "ᶀ", "ᶁ",
     "ᶂ", "ᶃ", "ᶄ", "ᶅ", "ᶆ", "ᶇ", "ᶈ", "ᶉ", "ᶊ", "ᶋ", "ᶌ", "ᶍ",
     "ᶎ", "ᶏ", "ᶐ", "ᶑ", "ᶒ", "ᶓ", "ᶔ", "ᶕ", "ᶖ", "ᶗ", "ᶘ", "ᶙ",
     "ᶚ", "U+1E00", "U+1E01", "U+1E02", "U+1E03", "U+1E04", "U+1E05", "U+1E06", "U+1E07", "U+1E08", "U+1E09", "U+1E0A",
     "U+1E0B", "U+1E0C", "U+1E0D", "U+1E0E", "U+1E0F", "U+1E10", "U+1E11", "U+1E12", "U+1E13", "U+1E14", "U+1E15", "U+1E16",
     "U+1E17", "U+1E18", "U+1E19", "U+1E1A", "U+1E1B", "U+1E1C", "U+1E1D", "U+1E1E", "U+1E1F", "U+1E20", "U+1E21", "U+1E22",
     "U+1E23", "U+1E24", "U+1E25", "U+1E26", "U+1E27", "U+1E28", "U+1E29", "U+1E2A", "U+1E2B", "U+1E2C", "U+1E2D", "U+1E2E",
     "U+1E2F", "U+1E30", "U+1E31", "U+1E32", "U+1E33", "U+1E34", "U+1E35", "U+1E36", "U+1E37", "U+1E38", "U+1E39", "U+1E3A",
     "U+1E3B", "U+1E3C", "U+1E3D", "U+1E3E", "U+1E3F", "U+1E40", "U+1E41", "U+1E42", "U+1E43", "U+1E44", "U+1E45", "U+1E46",
     "U+1E47", "U+1E48", "U+1E49", "U+1E4A", "U+1E4B", "U+1E4C", "U+1E4D", "U+1E4E", "U+1E4F", "U+1E50", "U+1E51", "U+1E52",
     "U+1E53", "U+1E54", "U+1E55", "U+1E56", "U+1E57", "U+1E58", "U+1E59", "U+1E5A", "U+1E5B", "U+1E5C", "U+1E5D", "U+1E5E",
     "U+1E5F", "U+1E60", "U+1E61", "U+1E62", "U+1E63", "U+1E64", "U+1E65", "U+1E66", "U+1E67", "U+1E68", "U+1E69", "U+1E6A",
     "U+1E6B", "U+1E6C", "U+1E6D", "U+1E6E", "U+1E6F", "U+1E70", "U+1E71", "U+1E72", "U+1E73", "U+1E74", "U+1E75", "U+1E76",
     "U+1E77", "U+1E78", "U+1E79", "U+1E7A", "U+1E7B", "U+1E7C", "U+1E7D", "U+1E7E", "U+1E7F", "Ẁ", "ẁ", "Ẃ",
     "ẃ", "Ẅ", "ẅ", "Ẇ", "ẇ", "Ẉ", "ẉ", "Ẋ", "ẋ", "Ẍ", "ẍ", "Ẏ",
     "ẏ", "Ẑ", "ẑ", "Ẓ", "ẓ", "Ẕ", "ẕ", "ẖ", "ẗ", "ẘ", "ẙ", "ẚ",
     "ẛ", "ẜ", "ẝ", "ẞ", "ẟ", "Ạ", "ạ", "Ả", "ả", "Ấ", "ấ", "Ầ",
     "ầ", "Ẩ", "ẩ", "Ẫ", "ẫ", "Ậ", "ậ", "Ắ", "ắ", "Ằ", "ằ", "Ẳ",
     "ẳ", "Ẵ", "ẵ", "Ặ", "ặ", "Ẹ", "ẹ", "Ẻ", "ẻ", "Ẽ", "ẽ", "Ế",
     "ế", "Ề", "ề", "Ể", "ể", "Ễ", "ễ", "Ệ", "ệ", "Ỉ", "ỉ", "Ị",
     "ị", "Ọ", "ọ", "Ỏ", "ỏ", "Ố", "ố", "Ồ", "ồ", "Ổ", "ổ", "Ỗ",
     "ỗ", "Ộ", "ộ", "Ớ", "ớ", "Ờ", "ờ", "Ở", "ở", "Ỡ", "ỡ", "Ợ",
     "ợ", "Ụ", "ụ", "Ủ", "ủ", "Ứ", "ứ", "Ừ", "ừ", "Ử", "ử", "Ữ",
     "ữ", "Ự", "ự", "Ỳ", "ỳ", "Ỵ", "ỵ", "Ỷ", "ỷ", "Ỹ", "ỹ", "Ỻ",
     "ỻ", "Ỽ", "ỽ", "Ỿ", "ỿ", "U+1F00", "U+1F01", "U+1F02", "U+1F03", "U+1F04", "U+1F05", "U+1F06",
     "U+1F07", "U+1F08", "U+1F09", "U+1F0A", "U+1F0B", "U+1F0C", "U+1F0D", "U+1F0E", "U+1F0F", "U+1F10", "U+1F11", "U+1F12",
     "U+1F13", "U+1F14", "U+1F15", "U+1F18", "U+1F19", "U+1F1A", "U+1F1B", "U+1F1C", "U+1F1D", "U+1F20", "U+1F21", "U+1F22",
     "U+1F23", "U+1F24", "U+1F25", "U+1F26", "U+1F27", "U+1F28", "U+1F29", "U+1F2A", "U+1F2B", "U+1F2C", "U+1F2D", "U+1F2E",
     "U+1F2F", "U+1F30", "U+1F31", "U+1F32", "U+1F33", "U+1F34", "U+1F35", "U+1F36", "U+1F37", "U+1F38", "U+1F39", "U+1F3A",
     "U+1F3B", "U+1F3C", "U+1F3D", "U+1F3E", "U+1F3F", "U+1F40", "U+1F41", "U+1F42", "U+1F43", "U+1F44", "U+1F45", "U+1F48",
     "U+1F49", "U+1F4A", "U+1F4B", "U+1F4C", "U+1F4D", "U+1F50", "U+1F51", "U+1F52", "U+1F53", "U+1F54", "U+1F55", "U+1F56",
     "U+1F57", "U+1F59", "U+1F5B", "U+1F5D", "U+1F5F", "U+1F60", "U+1F61", "U+1F62", "U+1F63", "U+1F64", "U+1F65", "U+1F66",
     "U+1F67", "U+1F68", "U+1F69", "U+1F6A", "U+1F6B", "U+1F6C", "U+1F6D", "U+1F6E", "U+1F6F", "U+1F70", "U+1F71", "U+1F72",
     "U+1F73", "U+1F74", "U+1F75", "U+1F76", "U+1F77", "U+1F78", "U+1F79", "U+1F7A", "U+1F7B", "U+1F7C", "U+1F7D", "ᾀ",
     "ᾁ", "ᾂ", "ᾃ", "ᾄ", "ᾅ", "ᾆ", "ᾇ", "ᾈ", "ᾉ", "ᾊ", "ᾋ", "ᾌ",
     "ᾍ", "ᾎ", "ᾏ", "ᾐ", "ᾑ", "ᾒ", "ᾓ", "ᾔ", "ᾕ", "ᾖ", "ᾗ", "ᾘ",
     "ᾙ", "ᾚ", "ᾛ", "ᾜ", "ᾝ", "ᾞ", "ᾟ", "ᾠ", "ᾡ", "ᾢ", "ᾣ", "ᾤ",
     "ᾥ", "ᾦ", "ᾧ", "ᾨ", "ᾩ", "ᾪ", "ᾫ", "ᾬ", "ᾭ", "ᾮ", "ᾯ", "ᾰ",
     "ᾱ", "ᾲ", "ᾳ", "ᾴ", "ᾶ", "ᾷ", "Ᾰ", "Ᾱ", "Ὰ", "Ά", "ᾼ", "ι",
     "ῂ", "ῃ", "ῄ", "ῆ", "ῇ", "Ὲ", "Έ", "Ὴ", "Ή", "ῌ", "ῐ", "ῑ",
     "ῒ", "ΐ", "ῖ", "ῗ", "Ῐ", "Ῑ", "Ὶ", "Ί", "ῠ", "ῡ", "ῢ", "ΰ",
     "ῤ", "ῥ", "ῦ", "ῧ", "Ῠ", "Ῡ", "Ὺ", "Ύ", "Ῥ", "ῲ", "ῳ", "ῴ",
     "ῶ", "ῷ", "Ὸ", "Ό", "Ὼ", "Ώ", "ῼ", "U+2102", "U+2107", "U+210A", "U+210B", "U+210C",
     "U+210D", "U+210E", "U+210F", "U+2110", "U+2111", "U+2112", "U+2113", "U+2115", "U+2119", "U+211A", "U+211B", "U+211C",
     "U+211D", "U+2124", "U+2126", "U+2128", "U+212A", "U+212B", "U+212C", "U+212D", "U+212F", "U+2130", "U+2131", "U+2132",
     "U+2133", "U+2134", "U+2139", "U+213C", "U+213D", "U+213E", "U+213F", "U+2145", "U+2146", "U+2147", "U+2148", "U+2149",
     "U+214E", "U+2160", "U+2161", "U+2162", "U+2163", "U+2164", "U+2165", "U+2166", "U+2167", "U+2168", "U+2169", "U+216A",
     "U+216B", "U+216C", "U+216D", "U+216E", "U+216F", "U+2170", "U+2171", "U+2172", "U+2173", "U+2174", "U+2175", "U+2176",
     "U+2177", "U+2178", "U+2179", "U+217A", "U+217B", "U+217C", "U+217D", "U+217E", "U+217F", "Ↄ", "ↄ", "Ⓐ",
     "Ⓑ", "Ⓒ", "Ⓓ", "Ⓔ", "Ⓕ", "Ⓖ", "Ⓗ", "Ⓘ", "Ⓙ", "Ⓚ", "Ⓛ", "Ⓜ",
     "Ⓝ", "Ⓞ", "Ⓟ", "Ⓠ", "Ⓡ", "Ⓢ", "Ⓣ", "Ⓤ", "Ⓥ", "Ⓦ", "Ⓧ", "Ⓨ",
     "Ⓩ", "ⓐ", "ⓑ", "ⓒ", "ⓓ", "ⓔ", "ⓕ", "ⓖ", "ⓗ", "ⓘ", "ⓙ", "ⓚ",
     "ⓛ", "ⓜ", "ⓝ", "ⓞ", "ⓟ", "ⓠ", "ⓡ", "ⓢ", "ⓣ", "ⓤ", "ⓥ", "ⓦ",
     "ⓧ", "ⓨ", "ⓩ", "U+2C00", "U+2C01", "U+2C02", "U+2C03", "U+2C04", "U+2C05", "U+2C06", "U+2C07", "U+2C08",
     "U+2C09", "U+2C0A", "U+2C0B", "U+2C0C", "U+2C0D", "U+2C0E", "U+2C0F", "U+2C10", "U+2C11", "U+2C12", "U+2C13", "U+2C14",
     "U+2C15", "U+2C16", "U+2C17", "U+2C18", "U+2C19", "U+2C1A", "U+2C1B", "U+2C1C", "U+2C1D", "U+2C1E", "U+2C1F", "U+2C20",
     "U+2C21", "U+2C22", "U+2C23", "U+2C24", "U+2C25", "U+2C26", "U+2C27", "U+2C28", "U+2C29", "U+2C2A", "U+2C2B", "U+2C2C",
     "U+2C2D", "U+2C2E", "U+2C2F", "U+2C30", "U+2C31", "U+2C32", "U+2C33", "U+2C34", "U+2C35", "U+2C36", "U+2C37", "U+2C38",
     "U+2C39", "U+2C3A", "U+2C3B", "U+2C3C", "U+2C3D", "U+2C3E", "U+2C3F", "U+2C40", "U+2C41", "U+2C42", "U+2C43", "U+2C44",
     "U+2C45", "U+2C46", "U+2C47", "U+2C48", "U+2C49", "U+2C4A", "U+2C4B", "U+2C4C", "U+2C4D", "U+2C4E", "U+2C4F", "U+2C50",
     "U+2C51", "U+2C52", "U+2C53", "U+2C54", "U+2C55", "U+2C56", "U+2C57", "U+2C58", "U+2C59", "U+2C5A", "U+2C5B", "U+2C5C",
     "U+2C5D", "U+2C5E", "U+2C5F", "U+2C60", "U+2C61", "U+2C62", "U+2C63", "U+2C64", "U+2C65", "U+2C66", "U+2C67", "U+2C68",
     "U+2C69", "U+2C6A", "U+2C6B", "U+2C6C", "U+2C6D", "U+2C6E", "U+2C6F", "U+2C70", "U+2C71", "U+2C72", "U+2C73", "U+2C74",
     "U+2C75", "U+2C76", "U+2C77", "U+2C78", "U+2C79", "U+2C7A", "U+2C7B", "U+2C7E", "U+2C7F", "Ⲁ", "ⲁ", "Ⲃ",
     "ⲃ", "Ⲅ", "ⲅ", "Ⲇ", "ⲇ", "Ⲉ", "ⲉ", "Ⲋ", "ⲋ", "Ⲍ", "ⲍ", "Ⲏ",
     "ⲏ", "Ⲑ", "ⲑ", "Ⲓ", "ⲓ", "Ⲕ", "ⲕ", "Ⲗ", "ⲗ", "Ⲙ", "ⲙ", "Ⲛ",
     "ⲛ", "Ⲝ", "ⲝ", "Ⲟ", "ⲟ", "Ⲡ", "ⲡ", "Ⲣ", "ⲣ", "Ⲥ", "ⲥ", "Ⲧ",
     "ⲧ", "Ⲩ", "ⲩ", "Ⲫ", "ⲫ", "Ⲭ", "ⲭ", "Ⲯ", "ⲯ", "Ⲱ", "ⲱ", "Ⲳ",
     "ⲳ", "Ⲵ", "ⲵ", "Ⲷ", "ⲷ", "Ⲹ", "ⲹ", "Ⲻ", "ⲻ", "Ⲽ", "ⲽ", "Ⲿ",
     "ⲿ", "Ⳁ", "ⳁ", "Ⳃ", "ⳃ", "Ⳅ", "ⳅ", "Ⳇ", "ⳇ", "Ⳉ", "ⳉ", "Ⳋ",
     "ⳋ", "Ⳍ", "ⳍ", "Ⳏ", "ⳏ", "Ⳑ", "ⳑ", "Ⳓ", "ⳓ", "Ⳕ", "ⳕ", "Ⳗ",
     "ⳗ", "Ⳙ", "ⳙ", "Ⳛ", "ⳛ", "Ⳝ", "ⳝ", "Ⳟ", "ⳟ", "Ⳡ", "ⳡ", "Ⳣ",
     "ⳣ", "ⳤ", "Ⳬ", "ⳬ", "Ⳮ", "ⳮ", "Ⳳ", "ⳳ", "U+2D00", "U+2D01", "U+2D02", "U+2D03",
     "U+2D04", "U+2D05", "U+2D06", "U+2D07", "U+2D08", "U+2D09", "U+2D0A", "U+2D0B", "U+2D0C", "U+2D0D", "U+2D0E", "U+2D0F",
     "U+2D10", "U+2D11", "U+2D12", "U+2D13", "U+2D14", "U+2D15", "U+2D16", "U+2D17", "U+2D18", "U+2D19", "U+2D1A", "U+2D1B",
     "U+2D1C", "U+2D1D", "U+2D1E", "U+2D1F", "U+2D20", "U+2D21", "U+2D22", "U+2D23", "U+2D24", "U+2D25", "U+2D27", "U+2D2D",
     "U+A640", "U+A641", "U+A642", "U+A643", "U+A644", "U+A645", "U+A646", "U+A647", "U+A648", "U+A649", "U+A64A", "U+A64B",
     "U+A64C", "U+A64D", "U+A64E", "U+A64F", "U+A650", "U+A651", "U+A652", "U+A653", "U+A654", "U+A655", "U+A656", "U+A657",
     "U+A658", "U+A659", "U+A65A", "U+A65B", "U+A65C", "U+A65D", "U+A65E", "U+A65F", "U+A660", "U+A661", "U+A662", "U+A663",
     "U+A664", "U+A665", "U+A666", "U+A667", "U+A668", "U+A669", "U+A66A", "U+A66B", "U+A66C", "U+A66D", "Ꚁ", "ꚁ",
     "Ꚃ", "ꚃ", "Ꚅ", "ꚅ", "Ꚇ", "ꚇ", "Ꚉ", "ꚉ", "Ꚋ", "ꚋ", "Ꚍ", "ꚍ",
     "Ꚏ", "ꚏ", "Ꚑ", "ꚑ", "Ꚓ", "ꚓ", "Ꚕ", "ꚕ", "Ꚗ", "ꚗ", "Ꚙ", "ꚙ",
     "Ꚛ", "ꚛ", "U+A722", "U+A723", "U+A724", "U+A725", "U+A726", "U+A727", "U+A728", "U+A729", "U+A72A", "U+A72B",
     "U+A72C", "U+A72D", "U+A72E", "U+A72F", "U+A730", "U+A731", "U+A732", "U+A733", "U+A734", "U+A735", "U+A736", "U+A737",
     "U+A738", "U+A739", "U+A73A", "U+A73B", "U+A73C", "U+A73D", "U+A73E", "U+A73F", "U+A740", "U+A741", "U+A742", "U+A743",
     "U+A744", "U+A745", "U+A746", "U+A747", "U+A748", "U+A749", "U+A74A", "U+A74B", "U+A74C", "U+A74D", "U+A74E", "U+A74F",
     "U+A750", "U+A751", "U+A752", "U+A753", "U+A754", "U+A755", "U+A756", "U+A757", "U+A758", "U+A759", "U+A75A", "U+A75B",
     "U+A75C", "U+A75D", "U+A75E", "U+A75F", "U+A760", "U+A761", "U+A762", "U+A763", "U+A764", "U+A765", "U+A766", "U+A767",
     "U+A768", "U+A769", "U+A76A", "U+A76B", "U+A76C", "U+A76D", "U+A76E", "U+A76F", "U+A771", "U+A772", "U+A773", "U+A774",
     "U+A775", "U+A776", "U+A777", "U+A778", "U+A779", "U+A77A", "U+A77B", "U+A77C", "U+A77D", "U+A77E", "U+A77F", "Ꞁ",
     "ꞁ", "Ꞃ", "ꞃ", "Ꞅ", "ꞅ", "Ꞇ", "ꞇ", "Ꞌ", "ꞌ", "Ɥ", "ꞎ", "Ꞑ",
     "ꞑ", "Ꞓ", "ꞓ", "ꞔ", "ꞕ", "Ꞗ", "ꞗ", "Ꞙ", "ꞙ", "Ꞛ", "ꞛ", "Ꞝ",
     "ꞝ", "Ꞟ", "ꞟ", "Ꞡ", "ꞡ", "Ꞣ", "ꞣ", "Ꞥ", "ꞥ", "Ꞧ", "ꞧ", "Ꞩ",
     "ꞩ", "Ɦ", "Ɜ", "Ɡ", "Ɬ", "Ɪ", "ꞯ", "Ʞ", "Ʇ", "Ʝ", "Ꭓ", "Ꞵ",
     "ꞵ", "Ꞷ", "ꞷ", "Ꞹ", "ꞹ", "Ꞻ", "ꞻ", "Ꞽ", "ꞽ", "Ꞿ", "ꞿ", "Ꟁ",
     "ꟁ", "Ꟃ", "ꟃ", "Ꞔ", "Ʂ", "Ᶎ", "Ꟈ", "ꟈ", "Ꟊ", "ꟊ", "Ꟑ", "ꟑ",
     "ꟓ", "ꟕ", "Ꟗ", "ꟗ", "Ꟙ", "ꟙ", "Ꟶ", "ꟶ", "ꟺ", "U+AB30", "U+AB31", "U+AB32",
     "U+AB33", "U+AB34", "U+AB35", "U+AB36", "U+AB37", "U+AB38", "U+AB39", "U+AB3A", "U+AB3B", "U+AB3C", "U+AB3D", "U+AB3E",
     "U+AB3F", "U+AB40", "U+AB41", "U+AB42", "U+AB43", "U+AB44", "U+AB45", "U+AB46", "U+AB47", "U+AB48", "U+AB49", "U+AB4A",
     "U+AB4B", "U+AB4C", "U+AB4D", "U+AB4E", "U+AB4F", "U+AB50", "U+AB51", "U+AB52", "U+AB53", "U+AB54", "U+AB55", "U+AB56",
     "U+AB57", "U+AB58", "U+AB59", "U+AB5A", "U+AB60", "U+AB61", "U+AB62", "U+AB63", "U+AB64", "U+AB65", "U+AB66", "U+AB67",
     "U+AB68", "U+AB70", "U+AB71", "U+AB72", "U+AB73", "U+AB74", "U+AB75", "U+AB76", "U+AB77", "U+AB78", "U+AB79", "U+AB7A",
     "U+AB7B", "U+AB7C", "U+AB7D", "U+AB7E", "U+AB7F", "ꮀ", "ꮁ", "ꮂ", "ꮃ", "ꮄ", "ꮅ", "ꮆ",
     "ꮇ", "ꮈ", "ꮉ", "ꮊ", "ꮋ", "ꮌ", "ꮍ", "ꮎ", "ꮏ", "ꮐ", "ꮑ", "ꮒ",
     "ꮓ", "ꮔ", "ꮕ", "ꮖ", "ꮗ", "ꮘ", "ꮙ", "ꮚ", "ꮛ", "ꮜ", "ꮝ", "ꮞ",
     "ꮟ", "ꮠ", "ꮡ", "ꮢ", "ꮣ", "ꮤ", "ꮥ", "ꮦ", "ꮧ", "ꮨ", "ꮩ", "ꮪ",
     "ꮫ", "ꮬ", "ꮭ", "ꮮ", "ꮯ", "ꮰ", "ꮱ", "ꮲ", "ꮳ", "ꮴ", "ꮵ", "ꮶ",
     "ꮷ", "ꮸ", "ꮹ", "ꮺ", "ꮻ", "ꮼ", "ꮽ", "ꮾ", "ꮿ", "U+FB00", "U+FB01", "U+FB02",
     "U+FB03", "U+FB04", "U+FB05", "U+FB06", "U+FB13", "U+FB14", "U+FB15", "U+FB16", "U+FB17", "U+FF21", "U+FF22", "U+FF23",
     "U+FF24", "U+FF25", "U+FF26", "U+FF27", "U+FF28", "U+FF29", "U+FF2A", "U+FF2B", "U+FF2C", "U+FF2D", "U+FF2E", "U+FF2F",
     "U+FF30", "U+FF31", "U+FF32", "U+FF33", "U+FF34", "U+FF35", "U+FF36", "U+FF37", "U+FF38", "U+FF39", "U+FF3A", "U+FF41",
     "U+FF42", "U+FF43", "U+FF44", "U+FF45", "U+FF46", "U+FF47", "U+FF48", "U+FF49", "U+FF4A", "U+FF4B", "U+FF4C", "U+FF4D",
     "U+FF4E", "U+FF4F", "U+FF50", "U+FF51", "U+FF52", "U+FF53", "U+FF54", "U+FF55", "U+FF56", "U+FF57", "U+FF58", "U+FF59",
     "U+FF5A", "U+10400", "U+10401", "U+10402", "U+10403", "U+10404", "U+10405", "U+10406", "U+10407", "U+10408", "U+10409", "U+1040A",
     "U+1040B", "U+1040C", "U+1040D", "U+1040E", "U+1040F", "U+10410", "U+10411", "U+10412", "U+10413", "U+10414", "U+10415", "U+10416",
     "U+10417", "U+10418", "U+10419", "U+1041A", "U+1041B", "U+1041C", "U+1041D", "U+1041E", "U+1041F", "U+10420", "U+10421", "U+10422",
     "U+10423", "U+10424", "U+10425", "U+10426", "U+10427", "U+10428", "U+10429", "U+1042A", "U+1042B", "U+1042C", "U+1042D", "U+1042E",
     "U+1042F", "U+10430", "U+10431", "U+10432", "U+10433", "U+10434", "U+10435", "U+10436", "U+10437", "U+10438", "U+10439", "U+1043A",
     "U+1043B", "U+1043C", "U+1043D", "U+1043E", "U+1043F", "U+10440", "U+10441", "U+10442", "U+10443", "U+10444", "U+10445", "U+10446",
     "U+10447", "U+10448", "U+10449", "U+1044A", "U+1044B", "U+1044C", "U+1044D", "U+1044E", "U+1044F", "U+104B0", "U+104B1", "U+104B2",
     "U+104B3", "U+104B4", "U+104B5", "U+104B6", "U+104B7", "U+104B8", "U+104B9", "U+104BA", "U+104BB", "U+104BC", "U+104BD", "U+104BE",
     "U+104BF", "U+104C0", "U+104C1", "U+104C2", "U+104C3", "U+104C4", "U+104C5", "U+104C6", "U+104C7", "U+104C8", "U+104C9", "U+104CA",
     "U+104CB", "U+104CC", "U+104CD", "U+104CE", "U+104CF", "U+104D0", "U+104D1", "U+104D2", "U+104D3", "U+104D8", "U+104D9", "U+104DA",
     "U+104DB", "U+104DC", "U+104DD", "U+104DE", "U+104DF", "U+104E0", "U+104E1", "U+104E2", "U+104E3", "U+104E4", "U+104E5", "U+104E6",
     "U+104E7", "U+104E8", "U+104E9", "U+104EA", "U+104EB", "U+104EC", "U+104ED", "U+104EE", "U+104EF", "U+104F0", "U+104F1", "U+104F2",
     "U+104F3", "U+104F4", "U+104F5", "U+104F6", "U+104F7", "U+104F8", "U+104F9", "U+104FA", "U+104FB", "U+10570", "U+10571", "U+10572",
     "U+10573", "U+10574", "U+10575", "U+10576", "U+10577", "U+10578", "U+10579", "U+1057A", "U+1057C", "U+1057D", "U+1057E", "U+1057F",
     "U+10580", "U+10581", "U+10582", "U+10583", "U+10584", "U+10585", "U+10586", "U+10587", "U+10588", "U+10589", "U+1058A", "U+1058C",
     "U+1058D", "U+1058E", "U+1058F", "U+10590", "U+10591", "U+10592", "U+10594", "U+10595", "U+10597", "U+10598", "U+10599", "U+1059A",
     "U+1059B", "U+1059C", "U+1059D", "U+1059E", "U+1059F", "U+105A0", "U+105A1", "U+105A3", "U+105A4", "U+105A5", "U+105A6", "U+105A7",
     "U+105A8", "U+105A9", "U+105AA", "U+105AB", "U+105AC", "U+105AD", "U+105AE", "U+105AF", "U+105B0", "U+105B1", "U+105B3", "U+105B4",
     "U+105B5", "U+105B6", "U+105B7", "U+105B8", "U+105B9", "U+105BB", "U+105BC", "U+10C80", "U+10C81", "U+10C82", "U+10C83", "U+10C84",
     "U+10C85", "U+10C86", "U+10C87", "U+10C88", "U+10C89", "U+10C8A", "U+10C8B", "U+10C8C", "U+10C8D", "U+10C8E", "U+10C8F", "U+10C90",
     "U+10C91", "U+10C92", "U+10C93", "U+10C94", "U+10C95", "U+10C96", "U+10C97", "U+10C98", "U+10C99", "U+10C9A", "U+10C9B", "U+10C9C",
     "U+10C9D", "U+10C9E", "U+10C9F", "U+10CA0", "U+10CA1", "U+10CA2", "U+10CA3", "U+10CA4", "U+10CA5", "U+10CA6", "U+10CA7", "U+10CA8",
     "U+10CA9", "U+10CAA", "U+10CAB", "U+10CAC", "U+10CAD", "U+10CAE", "U+10CAF", "U+10CB0", "U+10CB1", "U+10CB2", "U+10CC0", "U+10CC1",
     "U+10CC2", "U+10CC3", "U+10CC4", "U+10CC5", "U+10CC6", "U+10CC7", "U+10CC8", "U+10CC9", "U+10CCA", "U+10CCB", "U+10CCC", "U+10CCD",
     "U+10CCE", "U+10CCF", "U+10CD0", "U+10CD1", "U+10CD2", "U+10CD3", "U+10CD4", "U+10CD5", "U+10CD6", "U+10CD7", "U+10CD8", "U+10CD9",
     "U+10CDA", "U+10CDB", "U+10CDC", "U+10CDD", "U+10CDE", "U+10CDF", "U+10CE0", "U+10CE1", "U+10CE2", "U+10CE3", "U+10CE4", "U+10CE5",
     "U+10CE6", "U+10CE7", "U+10CE8", "U+10CE9", "U+10CEA", "U+10CEB", "U+10CEC", "U+10CED", "U+10CEE", "U+10CEF", "U+10CF0", "U+10CF1",
     "U+10CF2", "U+118A0", "U+118A1", "U+118A2", "U+118A3", "U+118A4", "U+118A5", "U+118A6", "U+118A7", "U+118A8", "U+118A9", "U+118AA",
     "U+118AB", "U+118AC", "U+118AD", "U+118AE", "U+118AF", "U+118B0", "U+118B1", "U+118B2", "U+118B3", "U+118B4", "U+118B5", "U+118B6",
     "U+118B7", "U+118B8", "U+118B9", "U+118BA", "U+118BB", "U+118BC", "U+118BD", "U+118BE", "U+118BF", "U+118C0", "U+118C1", "U+118C2",
     "U+118C3", "U+118C4", "U+118C5", "U+118C6", "U+118C7", "U+118C8", "U+118C9", "U+118CA", "U+118CB", "U+118CC", "U+118CD", "U+118CE",
     "U+118CF", "U+118D0", "U+118D1", "U+118D2", "U+118D3", "U+118D4", "U+118D5", "U+118D6", "U+118D7", "U+118D8", "U+118D9", "U+118DA",
     "U+118DB", "U+118DC", "U+118DD", "U+118DE", "U+118DF", "U+16E40", "U+16E41", "U+16E42", "U+16E43", "U+16E44", "U+16E45", "U+16E46",
     "U+16E47", "U+16E48", "U+16E49", "U+16E4A", "U+16E4B", "U+16E4C", "U+16E4D", "U+16E4E", "U+16E4F", "U+16E50", "U+16E51", "U+16E52",
     "U+16E53", "U+16E54", "U+16E55", "U+16E56", "U+16E57", "U+16E58", "U+16E59", "U+16E5A", "U+16E5B", "U+16E5C", "U+16E5D", "U+16E5E",
     "U+16E5F", "U+16E60", "U+16E61", "U+16E62", "U+16E63", "U+16E64", "U+16E65", "U+16E66", "U+16E67", "U+16E68", "U+16E69", "U+16E6A",
     "U+16E6B", "U+16E6C", "U+16E6D", "U+16E6E", "U+16E6F", "U+16E70", "U+16E71", "U+16E72", "U+16E73", "U+16E74", "U+16E75", "U+16E76",
     "U+16E77", "U+16E78", "U+16E79", "U+16E7A", "U+16E7B", "U+16E7C", "U+16E7D", "U+16E7E", "U+16E7F", "U+1D400", "U+1D401", "U+1D402",
     "U+1D403", "U+1D404", "U+1D405", "U+1D406", "U+1D407", "U+1D408", "U+1D409", "U+1D40A", "U+1D40B", "U+1D40C", "U+1D40D", "U+1D40E",
     "U+1D40F", "U+1D410", "U+1D411", "U+1D412", "U+1D413", "U+1D414", "U+1D415", "U+1D416", "U+1D417", "U+1D418", "U+1D419", "U+1D41A",
     "U+1D41B", "U+1D41C", "U+1D41D", "U+1D41E", "U+1D41F", "U+1D420", "U+1D421", "U+1D422", "U+1D423", "U+1D424", "U+1D425", "U+1D426",
     "U+1D427", "U+1D428", "U+1D429", "U+1D42A", "U+1D42B", "U+1D42C", "U+1D42D", "U+1D42E", "U+1D42F", "U+1D430", "U+1D431", "U+1D432",
     "U+1D433", "U+1D434", "U+1D435", "U+1D436", "U+1D437", "U+1D438", "U+1D439", "U+1D43A", "U+1D43B", "U+1D43C", "U+1D43D", "U+1D43E",
     "U+1D43F", "U+1D440", "U+1D441", "U+1D442", "U+1D443", "U+1D444", "U+1D445", "U+1D446", "U+1D447", "U+1D448", "U+1D449", "U+1D44A",
     "U+1D44B", "U+1D44C", "U+1D44D", "U+1D44E", "U+1D44F", "U+1D450", "U+1D451", "U+1D452", "U+1D453", "U+1D454", "U+1D456", "U+1D457",
     "U+1D458", "U+1D459", "U+1D45A", "U+1D45B", "U+1D45C", "U+1D45D", "U+1D45E", "U+1D45F", "U+1D460", "U+1D461", "U+1D462", "U+1D463",
     "U+1D464", "U+1D465", "U+1D466", "U+1D467", "U+1D468", "U+1D469", "U+1D46A", "U+1D46B", "U+1D46C", "U+1D46D", "U+1D46E", "U+1D46F",
     "U+1D470", "U+1D471", "U+1D472", "U+1D473", "U+1D474", "U+1D475", "U+1D476", "U+1D477", "U+1D478", "U+1D479", "U+1D47A", "U+1D47B",
     "U+1D47C", "U+1D47D", "U+1D47E", "U+1D47F", "U+1D480", "U+1D481", "U+1D482", "U+1D483", "U+1D484", "U+1D485", "U+1D486", "U+1D487",
     "U+1D488", "U+1D489", "U+1D48A", "U+1D48B", "U+1D48C", "U+1D48D", "U+1D48E", "U+1D48F", "U+1D490", "U+1D491", "U+1D492", "U+1D493",
     "U+1D494", "U+1D495", "U+1D496", "U+1D497", "U+1D498", "U+1D499", "U+1D49A", "U+1D49B", "U+1D49C", "U+1D49E", "U+1D49F", "U+1D4A2",
     "U+1D4A5", "U+1D4A6", "U+1D4A9", "U+1D4AA", "U+1D4AB", "U+1D4AC", "U+1D4AE", "U+1D4AF", "U+1D4B0", "U+1D4B1", "U+1D4B2", "U+1D4B3",
     "U+1D4B4", "U+1D4B5", "U+1D4B6", "U+1D4B7", "U+1D4B8", "U+1D4B9", "U+1D4BB", "U+1D4BD", "U+1D4BE", "U+1D4BF", "U+1D4C0", "U+1D4C1",
     "U+1D4C2", "U+1D4C3", "U+1D4C5", "U+1D4C6", "U+1D4C7", "U+1D4C8", "U+1D4C9", "U+1D4CA", "U+1D4CB", "U+1D4CC", "U+1D4CD", "U+1D4CE",
     "U+1D4CF", "U+1D4D0", "U+1D4D1", "U+1D4D2", "U+1D4D3", "U+1D4D4", "U+1D4D5", "U+1D4D6", "U+1D4D7", "U+1D4D8", "U+1D4D9", "U+1D4DA",
     "U+1D4DB", "U+1D4DC", "U+1D4DD", "U+1D4DE", "U+1D4DF", "U+1D4E0", "U+1D4E1", "U+1D4E2", "U+1D4E3", "U+1D4E4", "U+1D4E5", "U+1D4E6",
     "U+1D4E7", "U+1D4E8", "U+1D4E9", "U+1D4EA", "U+1D4EB", "U+1D4EC", "U+1D4ED", "U+1D4EE", "U+1D4EF", "U+1D4F0", "U+1D4F1", "U+1D4F2",
     "U+1D4F3", "U+1D4F4", "U+1D4F5", "U+1D4F6", "U+1D4F7", "U+1D4F8", "U+1D4F9", "U+1D4FA", "U+1D4FB", "U+1D4FC", "U+1D4FD", "U+1D4FE",
     "U+1D4FF", "U+1D500", "U+1D501", "U+1D502", "U+1D503", "U+1D504", "U+1D505", "U+1D507", "U+1D508", "U+1D509", "U+1D50A", "U+1D50D",
     "U+1D50E", "U+1D50F", "U+1D510", "U+1D511", "U+1D512", "U+1D513", "U+1D514", "U+1D516", "U+1D517", "U+1D518", "U+1D519", "U+1D51A",
     "U+1D51B", "U+1D51C", "U+1D51E", "U+1D51F", "U+1D520", "U+1D521", "U+1D522", "U+1D523", "U+1D524", "U+1D525", "U+1D526", "U+1D527",
     "U+1D528", "U+1D529", "U+1D52A", "U+1D52B", "U+1D52C", "U+1D52D", "U+1D52E", "U+1D52F", "U+1D530", "U+1D531", "U+1D532", "U+1D533",
     "U+1D534", "U+1D535", "U+1D536", "U+1D537", "U+1D538", "U+1D539", "U+1D53B", "U+1D53C", "U+1D53D", "U+1D53E", "U+1D540", "U+1D541",
     "U+1D542", "U+1D543", "U+1D544", "U+1D546", "U+1D54A", "U+1D54B", "U+1D54C", "U+1D54D", "U+1D54E", "U+1D54F", "U+1D550", "U+1D552",
     "U+1D553", "U+1D554", "U+1D555", "U+1D556", "U+1D557", "U+1D558", "U+1D559", "U+1D55A", "U+1D55B", "U+1D55C", "U+1D55D", "U+1D55E",
     "U+1D55F", "U+1D560", "U+1D561", "U+1D562", "U+1D563", "U+1D564", "U+1D565", "U+1D566", "U+1D567", "U+1D568", "U+1D569", "U+1D56A",
     "U+1D56B", "U+1D56C", "U+1D56D", "U+1D56E", "U+1D56F", "U+1D570", "U+1D571", "U+1D572", "U+1D573", "U+1D574", "U+1D575", "U+1D576",
     "U+1D577", "U+1D578", "U+1D579", "U+1D57A", "U+1D57B", "U+1D57C", "U+1D57D", "U+1D57E", "U+1D57F", "U+1D580", "U+1D581", "U+1D582",
     "U+1D583", "U+1D584", "U+1D585", "U+1D586", "U+1D587", "U+1D588", "U+1D589", "U+1D58A", "U+1D58B", "U+1D58C", "U+1D58D", "U+1D58E",
     "U+1D58F", "U+1D590", "U+1D591", "U+1D592", "U+1D593", "U+1D594", "U+1D595", "U+1D596", "U+1D597", "U+1D598", "U+1D599", "U+1D59A",
     "U+1D59B", "U+1D59C", "U+1D59D", "U+1D59E", "U+1D59F", "U+1D5A0", "U+1D5A1", "U+1D5A2", "U+1D5A3", "U+1D5A4", "U+1D5A5", "U+1D5A6",
     "U+1D5A7", "U+1D5A8", "U+1D5A9", "U+1D5AA", "U+1D5AB", "U+1D5AC", "U+1D5AD", "U+1D5AE", "U+1D5AF", "U+1D5B0", "U+1D5B1", "U+1D5B2",
     "U+1D5B3", "U+1D5B4", "U+1D5B5", "U+1D5B6", "U+1D5B7", "U+1D5B8", "U+1D5B9", "U+1D5BA", "U+1D5BB", "U+1D5BC", "U+1D5BD", "U+1D5BE",
     "U+1D5BF", "U+1D5C0", "U+1D5C1", "U+1D5C2", "U+1D5C3", "U+1D5C4", "U+1D5C5", "U+1D5C6", "U+1D5C7", "U+1D5C8", "U+1D5C9", "U+1D5CA",
     "U+1D5CB", "U+1D5CC", "U+1D5CD", "U+1D5CE", "U+1D5CF", "U+1D5D0", "U+1D5D1", "U+1D5D2", "U+1D5D3", "U+1D5D4", "U+1D5D5", "U+1D5D6",
     "U+1D5D7", "U+1D5D8", "U+1D5D9", "U+1D5DA", "U+1D5DB", "U+1D5DC", "U+1D5DD", "U+1D5DE", "U+1D5DF", "U+1D5E0", "U+1D5E1", "U+1D5E2",
     "U+1D5E3", "U+1D5E4", "U+1D5E5", "U+1D5E6", "U+1D5E7", "U+1D5E8", "U+1D5E9", "U+1D5EA", "U+1D5EB", "U+1D5EC", "U+1D5ED", "U+1D5EE",
     "U+1D5EF", "U+1D5F0", "U+1D5F1", "U+1D5F2", "U+1D5F3", "U+1D5F4", "U+1D5F5", "U+1D5F6", "U+1D5F7", "U+1D5F8", "U+1D5F9", "U+1D5FA",
     "U+1D5FB", "U+1D5FC", "U+1D5FD", "U+1D5FE", "U+1D5FF", "U+1D600", "U+1D601", "U+1D602", "U+1D603", "U+1D604", "U+1D605", "U+1D606",
     "U+1D607", "U+1D608", "U+1D609", "U+1D60A", "U+1D60B", "U+1D60C", "U+1D60D", "U+1D60E", "U+1D60F", "U+1D610", "U+1D611", "U+1D612",
     "U+1D613", "U+1D614", "U+1D615", "U+1D616", "U+1D617", "U+1D618", "U+1D619", "U+1D61A", "U+1D61B", "U+1D61C", "U+1D61D", "U+1D61E",
     "U+1D61F", "U+1D620", "U+1D621", "U+1D622", "U+1D623", "U+1D624", "U+1D625", "U+1D626", "U+1D627", "U+1D628", "U+1D629", "U+1D62A",
     "U+1D62B", "U+1D62C", "U+1D62D", "U+1D62E", "U+1D62F", "U+1D630", "U+1D631", "U+1D632", "U+1D633", "U+1D634", "U+1D635", "U+1D636",
     "U+1D637", "U+1D638", "U+1D639", "U+1D63A", "U+1D63B", "U+1D63C", "U+1D63D", "U+1D63E", "U+1D63F", "U+1D640", "U+1D641", "U+1D642",
     "U+1D643", "U+1D644", "U+1D645", "U+1D646", "U+1D647", "U+1D648", "U+1D649", "U+1D64A", "U+1D64B", "U+1D64C", "U+1D64D", "U+1D64E",
     "U+1D64F", "U+1D650", "U+1D651", "U+1D652", "U+1D653", "U+1D654", "U+1D655", "U+1D656", "U+1D657", "U+1D658", "U+1D659", "U+1D65A",
     "U+1D65B", "U+1D65C", "U+1D65D", "U+1D65E", "U+1D65F", "U+1D660", "U+1D661", "U+1D662", "U+1D663", "U+1D664", "U+1D665", "U+1D666",
     "U+1D667", "U+1D668", "U+1D669", "U+1D66A", "U+1D66B", "U+1D66C", "U+1D66D", "U+1D66E", "U+1D66F", "U+1D670", "U+1D671", "U+1D672",
     "U+1D673", "U+1D674", "U+1D675", "U+1D676", "U+1D677", "U+1D678", "U+1D679", "U+1D67A", "U+1D67B", "U+1D67C", "U+1D67D", "U+1D67E",
     "U+1D67F", "U+1D680", "U+1D681", "U+1D682", "U+1D683", "U+1D684", "U+1D685", "U+1D686", "U+1D687", "U+1D688", "U+1D689", "U+1D68A",
     "U+1D68B", "U+1D68C", "U+1D68D", "U+1D68E", "U+1D68F", "U+1D690", "U+1D691", "U+1D692", "U+1D693", "U+1D694", "U+1D695", "U+1D696",
     "U+1D697", "U+1D698", "U+1D699", "U+1D69A", "U+1D69B", "U+1D69C", "U+1D69D", "U+1D69E", "U+1D69F", "U+1D6A0", "U+1D6A1", "U+1D6A2",
     "U+1D6A3", "U+1D6A4", "U+1D6A5", "U+1D6A8", "U+1D6A9", "U+1D6AA", "U+1D6AB", "U+1D6AC", "U+1D6AD", "U+1D6AE", "U+1D6AF", "U+1D6B0",
     "U+1D6B1", "U+1D6B2", "U+1D6B3", "U+1D6B4", "U+1D6B5", "U+1D6B6", "U+1D6B7", "U+1D6B8", "U+1D6B9", "U+1D6BA", "U+1D6BB", "U+1D6BC",
     "U+1D6BD", "U+1D6BE", "U+1D6BF", "U+1D6C0", "U+1D6C2", "U+1D6C3", "U+1D6C4", "U+1D6C5", "U+1D6C6", "U+1D6C7", "U+1D6C8", "U+1D6C9",
     "U+1D6CA", "U+1D6CB", "U+1D6CC", "U+1D6CD", "U+1D6CE", "U+1D6CF", "U+1D6D0", "U+1D6D1", "U+1D6D2", "U+1D6D3", "U+1D6D4", "U+1D6D5",
     "U+1D6D6", "U+1D6D7", "U+1D6D8", "U+1D6D9", "U+1D6DA", "U+1D6DC", "U+1D6DD", "U+1D6DE", "U+1D6DF", "U+1D6E0", "U+1D6E1", "U+1D6E2",
     "U+1D6E3", "U+1D6E4", "U+1D6E5", "U+1D6E6", "U+1D6E7", "U+1D6E8", "U+1D6E9", "U+1D6EA", "U+1D6EB", "U+1D6EC", "U+1D6ED", "U+1D6EE",
     "U+1D6EF", "U+1D6F0", "U+1D6F1", "U+1D6F2", "U+1D6F3", "U+1D6F4", "U+1D6F5", "U+1D6F6", "U+1D6F7", "U+1D6F8", "U+1D6F9", "U+1D6FA",
     "U+1D6FC", "U+1D6FD", "U+1D6FE", "U+1D6FF", "U+1D700", "U+1D701", "U+1D702", "U+1D703", "U+1D704", "U+1D705", "U+1D706", "U+1D707",
     "U+1D708", "U+1D709", "U+1D70A", "U+1D70B", "U+1D70C", "U+1D70D", "U+1D70E", "U+1D70F", "U+1D710", "U+1D711", "U+1D712", "U+1D713",
     "U+1D714", "U+1D716", "U+1D717", "U+1D718", "U+1D719", "U+1D71A", "U+1D71B", "U+1D71C", "U+1D71D", "U+1D71E", "U+1D71F", "U+1D720",
     "U+1D721", "U+1D722", "U+1D723", "U+1D724", "U+1D725", "U+1D726", "U+1D727", "U+1D728", "U+1D729", "U+1D72A", "U+1D72B", "U+1D72C",
     "U+1D72D", "U+1D72E", "U+1D72F", "U+1D730", "U+1D731", "U+1D732", "U+1D733", "U+1D734", "U+1D736", "U+1D737", "U+1D738", "U+1D739",
     "U+1D73A", "U+1D73B", "U+1D73C", "U+1D73D", "U+1D73E", "U+1D73F", "U+1D740", "U+1D741", "U+1D742", "U+1D743", "U+1D744", "U+1D745",
     "U+1D746", "U+1D747", "U+1D748", "U+1D749", "U+1D74A", "U+1D74B", "U+1D74C", "U+1D74D", "U+1D74E", "U+1D750", "U+1D751", "U+1D752",
     "U+1D753", "U+1D754", "U+1D755", "U+1D756", "U+1D757", "U+1D758", "U+1D759", "U+1D75A", "U+1D75B", "U+1D75C", "U+1D75D", "U+1D75E",
     "U+1D75F", "U+1D760", "U+1D761", "U+1D762", "U+1D763", "U+1D764", "U+1D765", "U+1D766", "U+1D767", "U+1D768", "U+1D769", "U+1D76A",
     "U+1D76B", "U+1D76C", "U+1D76D", "U+1D76E", "U+1D770", "U+1D771", "U+1D772", "U+1D773", "U+1D774", "U+1D775", "U+1D776", "U+1D777",
     "U+1D778", "U+1D779", "U+1D77A", "U+1D77B", "U+1D77C", "U+1D77D", "U+1D77E", "U+1D77F", "U+1D780", "U+1D781", "U+1D782", "U+1D783",
     "U+1D784", "U+1D785", "U+1D786", "U+1D787", "U+1D788", "U+1D78A", "U+1D78B", "U+1D78C", "U+1D78D", "U+1D78E", "U+1D78F", "U+1D790",
     "U+1D791", "U+1D792", "U+1D793", "U+1D794", "U+1D795", "U+1D796", "U+1D797", "U+1D798", "U+1D799", "U+1D79A", "U+1D79B", "U+1D79C",
     "U+1D79D", "U+1D79E", "U+1D79F", "U+1D7A0", "U+1D7A1", "U+1D7A2", "U+1D7A3", "U+1D7A4", "U+1D7A5", "U+1D7A6", "U+1D7A7", "U+1D7A8",
     "U+1D7AA", "U+1D7AB", "U+1D7AC", "U+1D7AD", "U+1D7AE", "U+1D7AF", "U+1D7B0", "U+1D7B1", "U+1D7B2", "U+1D7B3", "U+1D7B4", "U+1D7B5",
     "U+1D7B6", "U+1D7B7", "U+1D7B8", "U+1D7B9", "U+1D7BA", "U+1D7BB", "U+1D7BC", "U+1D7BD", "U+1D7BE", "U+1D7BF", "U+1D7C0", "U+1D7C1",
     "U+1D7C2", "U+1D7C4", "U+1D7C5", "U+1D7C6", "U+1D7C7", "U+1D7C8", "U+1D7C9", "U+1D7CA", "U+1D7CB", "U+1DF00", "U+1DF01", "U+1DF02",
     "U+1DF03", "U+1DF04", "U+1DF05", "U+1DF06", "U+1DF07", "U+1DF08", "U+1DF09", "U+1DF0B", "U+1DF0C", "U+1DF0D", "U+1DF0E", "U+1DF0F",
     "U+1DF10", "U+1DF11", "U+1DF12", "U+1DF13", "U+1DF14", "U+1DF15", "U+1DF16", "U+1DF17", "U+1DF18", "U+1DF19", "U+1DF1A", "U+1DF1B",
     "U+1DF1C", "U+1DF1D", "U+1DF1E", "U+1E900", "U+1E901", "U+1E902", "U+1E903", "U+1E904", "U+1E905", "U+1E906", "U+1E907", "U+1E908",
     "U+1E909", "U+1E90A", "U+1E90B", "U+1E90C", "U+1E90D", "U+1E90E", "U+1E90F", "U+1E910", "U+1E911", "U+1E912", "U+1E913", "U+1E914",
     "U+1E915", "U+1E916", "U+1E917", "U+1E918", "U+1E919", "U+1E91A", "U+1E91B", "U+1E91C", "U+1E91D", "U+1E91E", "U+1E91F", "U+1E920",
     "U+1E921", "U+1E922", "U+1E923", "U+1E924", "U+1E925", "U+1E926", "U+1E927", "U+1E928", "U+1E929", "U+1E92A", "U+1E92B", "U+1E92C",
     "U+1E92D", "U+1E92E", "U+1E92F", "U+1E930", "U+1E931", "U+1E932", "U+1E933", "U+1E934", "U+1E935", "U+1E936", "U+1E937", "U+1E938",
     "U+1E939", "U+1E93A", "U+1E93B", "U+1E93C", "U+1E93D", "U+1E93E", "U+1E93F", "U+1E940", "U+1E941", "U+1E942", "U+1E943", "U+1F130",
     "U+1F131", "U+1F132", "U+1F133", "U+1F134", "U+1F135", "U+1F136", "U+1F137", "U+1F138", "U+1F139", "U+1F13A", "U+1F13B", "U+1F13C",
     "U+1F13D", "U+1F13E", "U+1F13F", "U+1F140", "U+1F141", "U+1F142", "U+1F143", "U+1F144", "U+1F145", "U+1F146", "U+1F147", "U+1F148",
     "U+1F149", "U+1F150", "U+1F151", "U+1F152", "U+1F153", "U+1F154", "U+1F155", "U+1F156", "U+1F157", "U+1F158", "U+1F159", "U+1F15A",
     "U+1F15B", "U+1F15C", "U+1F15D", "U+1F15E", "U+1F15F", "U+1F160", "U+1F161", "U+1F162", "U+1F163", "U+1F164", "U+1F165", "U+1F166",
     "U+1F167", "U+1F168", "U+1F169", "U+1F170", "U+1F171", "U+1F172", "U+1F173", "U+1F174", "U+1F175", "U+1F176", "U+1F177", "U+1F178",
     "U+1F179", "U+1F17A", "U+1F17B", "U+1F17C", "U+1F17D", "U+1F17E", "U+1F17F", "U+1F180", "U+1F181", "U+1F182", "U+1F183", "U+1F184",
     "U+1F185", "U+1F186", "U+1F187", "U+1F188", "U+1F189"}

\* the characters with the Unicode property Case_Ignorable
CaseIgnorable ==
    {"'", ".", ":", "^", "BACKQUOTE", "¨", "­", "¯", "´", "·", "¸", "ʰ",
     "ʱ", "ʲ", "ʳ", "ʴ", "ʵ", "ʶ", "ʷ", "ʸ", "ʹ", "ʺ", "ʻ", "ʼ",
     "ʽ", "ʾ", "ʿ", "ˀ", "ˁ", "˂", "˃", "˄", "˅", "ˆ", "ˇ", "ˈ",
     "ˉ", "ˊ", "ˋ", "ˌ", "ˍ", "ˎ", "ˏ", "ː", "ˑ", "˒", "˓", "˔",
     "˕", "˖", "˗", "˘", "˙", "˚", "˛", "˜", "˝", "˞", "˟", "ˠ",
     "ˡ", "ˢ", "ˣ", "ˤ", "˥", "˦", "˧", "˨", "˩", "˪", "˫", "ˬ",
     "˭", "ˮ", "˯", "˰", "˱", "˲", "˳", "˴", "˵", "˶", "˷", "˸",
     "˹", "˺", "˻", "˼", "˽", "˾", "˿", "U+0300", "U+0301", "U+0302", "U+0303", "U+0304",
     "U+0305", "U+0306", "U+0307", "U+0308", "U+0309", "U+030A", "U+030B", "U+030C", "U+030D", "U+030E", "U+030F", "U+0310",
     "U+0311", "U+0312", "U+0313", "U+0314", "U+0315", "U+0316", "U+0317", "U+0318", "U+0319", "U+031A", "U+031B", "U+031C",
     "U+031D", "U+031E", "U+031F", "U+0320", "U+0321", "U+0322", "U+0323", "U+0324", "U+0325", "U+0326", "U+0327", "U+0328",
     "U+0329", "U+032A", "U+032B", "U+032C", "U+032D", "U+032E", "U+032F", "U+0330", "U+0331", "U+0332", "U+0333", "U+0334",
     "U+0335", "U+0336", "U+0337", "U+0338", "U+0339", "U+033A", "U+033B", "U+033C", "U+033D", "U+033E", "U+033F", "U+0340",
     "U+0341", "U+0342", "U+0343", "U+0344", "U+0345", "U+0346", "U+0347", "U+0348", "U+0349", "U+034A", "U+034B", "U+034C",
     "U+034D", "U+034E", "U+034F", "U+0350", "U+0351", "U+0352", "U+0353", "U+0354", "U+0355", "U+0356", "U+0357", "U+0358",
     "U+0359", "U+035A", "U+035B", "U+035C", "U+035D", "U+035E", "U+035F", "U+0360", "U+0361", "U+0362", "U+0363", "U+0364",
     "U+0365", "U+0366", "U+0367", "U+0368", "U+0369", "U+036A", "U+036B", "U+036C", "U+036D", "U+036E", "U+036F", "U+0374",
     "U+0375", "U+037A", "΄", "΅", "·", "҃", "҄", "҅", "҆", "҇", "҈", "҉",
     "U+0559", "U+055F", "֑", "֒", "֓", "֔", "֕", "֖", "֗", "֘", "֙", "֚",
     "֛", "֜", "֝", "֞", "֟", "֠", "֡", "֢", "֣", "֤", "֥", "֦",
     "֧", "֨", "֩", "֪", "֫", "֬", "֭", "֮", "֯", "ְ", "ֱ", "ֲ",
     "ֳ", "ִ", "ֵ", "ֶ", "ַ", "ָ", "ֹ", "ֺ", "ֻ", "ּ", "ֽ", "ֿ",
     "ׁ", "ׂ", "ׄ", "ׅ", "ׇ", "״", "U+0600", "U+0601", "U+0602", "U+0603", "U+0604", "U+0605",
     "U+0610", "U+0611", "U+0612", "U+0613", "U+0614", "U+0615", "U+0616", "U+0617", "U+0618", "U+0619", "U+061A", "U+061C",
     "U+0640", "U+064B", "U+064C", "U+064D", "U+064E", "U+064F", "U+0650", "U+0651", "U+0652", "U+0653", "U+0654", "U+0655",
     "U+0656", "U+0657", "U+0658", "U+0659", "U+065A", "U+065B", "U+065C", "U+065D", "U+065E", "U+065F", "U+0670", "ۖ",
     "ۗ", "ۘ", "ۙ", "ۚ", "ۛ", "ۜ", "۝", "۟", "۠", "ۡ", "ۢ", "ۣ",
     "ۤ", "ۥ", "ۦ", "ۧ", "ۨ", "۪", "۫", "۬", "ۭ", "U+070F", "U+0711", "U+0730",
     "U+0731", "U+0732", "U+0733", "U+0734", "U+0735", "U+0736", "U+0737", "U+0738", "U+0739", "U+073A", "U+073B", "U+073C",
     "U+073D", "U+073E", "U+073F", "U+0740", "U+0741", "U+0742", "U+0743", "U+0744", "U+0745", "U+0746", "U+0747", "U+0748",
     "U+0749", "U+074A", "ަ", "ާ", "ި", "ީ", "ު", "ޫ", "ެ", "ޭ", "ޮ", "ޯ",
     "ް", "߫", "߬", "߭", "߮", "߯", "߰", "߱", "߲", "߳", "ߴ", "ߵ",
     "ߺ", "߽", "U+0816", "U+0817", "U+0818", "U+0819", "U+081A", "U+081B", "U+081C", "U+081D", "U+081E", "U+081F",
     "U+0820", "U+0821", "U+0822", "U+0823", "U+0824", "U+0825", "U+0826", "U+0827", "U+0828", "U+0829", "U+082A", "U+082B",
     "U+082C", "U+082D", "U+0859", "U+085A", "U+085B", "࢈", "࢐", "࢑", "࢘", "࢙", "࢚", "࢛",
     "࢜", "࢝", "࢞", "࢟", "ࣉ", "࣊", "࣋", "࣌", "࣍", "࣎", "࣏", "࣐",
     "࣑", "࣒", "࣓", "ࣔ", "ࣕ", "ࣖ", "ࣗ", "ࣘ", "ࣙ", "ࣚ", "ࣛ", "ࣜ",
     "ࣝ", "ࣞ", "ࣟ", "࣠", "࣡", "࣢", "ࣣ", "ࣤ", "ࣥ", "ࣦ", "ࣧ", "ࣨ",
     "ࣩ", "࣪", "࣫", "࣬", "࣭", "࣮", "࣯", "ࣰ", "ࣱ", "ࣲ", "ࣳ", "ࣴ",
     "ࣵ", "ࣶ", "ࣷ", "ࣸ", "ࣹ", "ࣺ", "ࣻ", "ࣼ", "ࣽ", "ࣾ", "ࣿ", "U+0900",
     "U+0901", "U+0902", "U+093A", "U+093C", "U+0941", "U+0942", "U+0943", "U+0944", "U+0945", "U+0946", "U+0947", "U+0948",
     "U+094D", "U+0951", "U+0952", "U+0953", "U+0954", "U+0955", "U+0956", "U+0957", "U+0962", "U+0963", "U+0971", "ঁ",
     "়", "ু", "ূ", "ৃ", "ৄ", "্", "ৢ", "ৣ", "৾", "U+0A01", "U+0A02", "U+0A3C",
     "U+0A41", "U+0A42", "U+0A47", "U+0A48", "U+0A4B", "U+0A4C", "U+0A4D", "U+0A51", "U+0A70", "U+0A71", "U+0A75", "ઁ",
     "ં", "઼", "ુ", "ૂ", "ૃ", "ૄ", "ૅ", "ે", "ૈ", "્", "ૢ", "ૣ",
     "ૺ", "ૻ", "ૼ", "૽", "૾", "૿", "U+0B01", "U+0B3C", "U+0B3F", "U+0B41", "U+0B42", "U+0B43",
     "U+0B44", "U+0B4D", "U+0B55", "U+0B56", "U+0B62", "U+0B63", "ஂ", "ீ", "்", "U+0C00", "U+0C04", "U+0C3C",
     "U+0C3E", "U+0C3F", "U+0C40", "U+0C46", "U+0C47", "U+0C48", "U+0C4A", "U+0C4B", "U+0C4C", "U+0C4D", "U+0C55", "U+0C56",
     "U+0C62", "U+0C63", "ಁ", "಼", "ಿ", "ೆ", "ೌ", "್", "ೢ", "ೣ", "U+0D00", "U+0D01",
     "U+0D3B", "U+0D3C", "U+0D41", "U+0D42", "U+0D43", "U+0D44", "U+0D4D", "U+0D62", "U+0D63", "ඁ", "්", "ි",
     "ී", "ු", "ූ", "U+0E31", "U+0E34", "U+0E35", "U+0E36", "U+0E37", "U+0E38", "U+0E39", "U+0E3A", "U+0E46",
     "U+0E47", "U+0E48", "U+0E49", "U+0E4A", "U+0E4B", "U+0E4C", "U+0E4D", "U+0E4E", "ັ", "ິ", "ີ", "ຶ",
     "ື", "ຸ", "ູ", "຺", "ົ", "ຼ", "ໆ", "່", "້", "໊", "໋", "໌",
     "ໍ", "U+0F18", "U+0F19", "U+0F35", "U+0F37", "U+0F39", "U+0F71", "U+0F72", "U+0F73", "U+0F74", "U+0F75", "U+0F76",
     "U+0F77", "U+0F78", "U+0F79", "U+0F7A", "U+0F7B", "U+0F7C", "U+0F7D", "U+0F7E", "ྀ", "ཱྀ", "ྂ", "ྃ",
     "྄", "྆", "྇", "ྍ", "ྎ", "ྏ", "ྐ", "ྑ", "ྒ", "ྒྷ", "ྔ", "ྕ",
     "ྖ", "ྗ", "ྙ", "ྚ", "ྛ", "ྜ", "ྜྷ", "ྞ", "ྟ", "ྠ", "ྡ", "ྡྷ",
     "ྣ", "ྤ", "ྥ", "ྦ", "ྦྷ", "ྨ", "ྩ", "ྪ", "ྫ", "ྫྷ", "ྭ", "ྮ",
     "ྯ", "ྰ", "ྱ", "ྲ", "ླ", "ྴ", "ྵ", "ྶ", "ྷ", "ྸ", "ྐྵ", "ྺ",
     "ྻ", "ྼ", "࿆", "U+102D", "U+102E", "U+102F", "U+1030", "U+1032", "U+1033", "U+1034", "U+1035", "U+1036",
     "U+1037", "U+1039", "U+103A", "U+103D", "U+103E", "U+1058", "U+1059", "U+105E", "U+105F", "U+1060", "U+1071", "U+1072",
     "U+1073", "U+1074", "ႂ", "ႅ", "ႆ", "ႍ", "ႝ", "ჼ", "U+135D", "U+135E", "U+135F", "U+1712",
     "U+1713", "U+1714", "U+1732", "U+1733", "U+1752", "U+1753", "U+1772", "U+1773", "឴", "឵", "ិ", "ី",
     "ឹ", "ឺ", "ុ", "ូ", "ួ", "ំ", "៉", "៊", "់", "៌", "៍", "៎",
     "៏", "័", "៑", "្", "៓", "ៗ", "៝", "U+180B", "U+180C", "U+180D", "U+180E", "U+180F",
     "U+1843", "ᢅ", "ᢆ", "ᢩ", "U+1920", "U+1921", "U+1922", "U+1927", "U+1928", "U+1932", "U+1939", "U+193A",
     "U+193B", "U+1A17", "U+1A18", "U+1A1B", "U+1A56", "U+1A58", "U+1A59", "U+1A5A", "U+1A5B", "U+1A5C", "U+1A5D", "U+1A5E",
     "U+1A60", "U+1A62", "U+1A65", "U+1A66", "U+1A67", "U+1A68", "U+1A69", "U+1A6A", "U+1A6B", "U+1A6C", "U+1A73", "U+1A74",
     "U+1A75", "U+1A76", "U+1A77", "U+1A78", "U+1A79", "U+1A7A", "U+1A7B", "U+1A7C", "U+1A7F", "ᪧ", "᪰", "᪱",
     "᪲", "᪳", "᪴", "᪵", "᪶", "᪷", "᪸", "᪹", "᪺", "᪻", "᪼", "᪽",
     "᪾", "ᪿ", "ᫀ", "᫁", "᫂", "᫃", "᫄", "᫅", "᫆", "᫇", "᫈", "᫉",
     "᫊", "᫋", "ᫌ", "ᫍ", "ᫎ", "U+1B00", "U+1B01", "U+1B02", "U+1B03", "U+1B34", "U+1B36", "U+1B37",
     "U+1B38", "U+1B39", "U+1B3A", "U+1B3C", "U+1B42", "U+1B6B", "U+1B6C", "U+1B6D", "U+1B6E", "U+1B6F", "U+1B70", "U+1B71",
     "U+1B72", "U+1B73", "ᮀ", "ᮁ", "ᮢ", "ᮣ", "ᮤ", "ᮥ", "ᮨ", "ᮩ", "᮫", "ᮬ",
     "ᮭ", "᯦", "ᯨ", "ᯩ", "ᯭ", "ᯯ", "ᯰ", "ᯱ", "U+1C2C", "U+1C2D", "U+1C2E", "U+1C2F",
     "U+1C30", "U+1C31", "U+1C32", "U+1C33", "U+1C36", "U+1C37", "U+1C78", "U+1C79", "U+1C7A", "U+1C7B", "U+1C7C", "U+1C7D",
     "᳐", "᳑", "᳒", "᳔", "᳕", "᳖", "᳗", "᳘", "᳙", "᳚", "᳛", "᳜",
     "᳝", "᳞", "᳟", "᳠", "᳢", "᳣", "᳤", "᳥", "᳦", "᳧", "᳨", "᳭",
     "᳴", "᳸", "᳹", "U+1D2C", "U+1D2D", "U+1D2E", "U+1D2F", "U+1D30", "U+1D31", "U+1D32", "U+1D33", "U+1D34",
     "U+1D35", "U+1D36", "U+1D37", "U+1D38", "U+1D39", "U+1D3A", "U+1D3B", "U+1D3C", "U+1D3D", "U+1D3E", "U+1D3F", "U+1D40",
     "U+1D41", "U+1D42", "U+1D43", "U+1D44", "U+1D45", "U+1D46", "U+1D47", "U+1D48", "U+1D49", "U+1D4A", "U+1D4B", "U+1D4C",
     "U+1D4D", "U+1D4E", "U+1D4F", "U+1D50", "U+1D51", "U+1D52", "U+1D53", "U+1D54", "U+1D55", "U+1D56", "U+1D57", "U+1D58",
     "U+1D59", "U+1D5A", "U+1D5B", "U+1D5C", "U+1D5D", "U+1D5E", "U+1D5F", "U+1D60", "U+1D61", "U+1D62", "U+1D63", "U+1D64",
     "U+1D65", "U+1D66", "U+1D67", "U+1D68", "U+1D69", "U+1D6A", "U+1D78", "ᶛ", "ᶜ", "ᶝ", "ᶞ", "ᶟ",
     "ᶠ", "ᶡ", "ᶢ", "ᶣ", "ᶤ", "ᶥ", "ᶦ", "ᶧ", "ᶨ", "ᶩ", "ᶪ", "ᶫ",
     "ᶬ", "ᶭ", "ᶮ", "ᶯ", "ᶰ", "ᶱ", "ᶲ", "ᶳ", "ᶴ", "ᶵ", "ᶶ", "ᶷ",
     "ᶸ", "ᶹ", "ᶺ", "ᶻ", "ᶼ", "ᶽ", "ᶾ", "ᶿ", "᷀", "᷁", "᷂", "᷃",
     "᷄", "᷅", "᷆", "᷇", "᷈", "᷉", "᷊", "᷋", "᷌", "᷍", "᷎", "᷏",
     "᷐", "᷑", "᷒", "ᷓ", "ᷔ", "ᷕ", "ᷖ", "ᷗ", "ᷘ", "ᷙ", "ᷚ", "ᷛ",
     "ᷜ", "ᷝ", "ᷞ", "ᷟ", "ᷠ", "ᷡ", "ᷢ", "ᷣ", "ᷤ", "ᷥ", "ᷦ", "ᷧ",
     "ᷨ", "ᷩ", "ᷪ", "ᷫ", "ᷬ", "ᷭ", "ᷮ", "ᷯ", "ᷰ", "ᷱ", "ᷲ", "ᷳ",
     "ᷴ", "᷵", "᷶", "᷷", "᷸", "᷹", "᷺", "᷻", "᷼", "᷽", "᷾", "᷿",
     "᾽", "᾿", "῀", "῁", "῍", "῎", "῏", "῝", "῞", "῟", "῭", "΅",
     "`", "´", "῾", "U+200B", "U+200C", "U+200D", "U+200E", "U+200F", "U+2018", "U+2019", "U+2024", "U+2027",
     "U+202A", "U+202B", "U+202C", "U+202D", "U+202E", "U+2060", "U+2061", "U+2062", "U+2063", "U+2064", "U+2066", "U+2067",
     "U+2068", "U+2069", "U+206A", "U+206B", "U+206C", "U+206D", "U+206E", "U+206F", "U+2071", "U+207F", "ₐ", "ₑ",
     "ₒ", "ₓ", "ₔ", "ₕ", "ₖ", "ₗ", "ₘ", "ₙ", "ₚ", "ₛ", "ₜ", "⃐",
     "⃑", "⃒", "⃓", "⃔", "⃕", "⃖", "⃗", "⃘", "⃙", "⃚", "⃛", "⃜",
     "⃝", "⃞", "⃟", "⃠", "⃡", "⃢", "⃣", "⃤", "⃥", "⃦", "⃧", "⃨",
     "⃩", "⃪", "⃫", "⃬", "⃭", "⃮", "⃯", "⃰", "U+2C7C", "U+2C7D", "⳯", "⳰",
     "⳱", "U+2D6F", "U+2D7F", "ⷠ", "ⷡ", "ⷢ", "ⷣ", "ⷤ", "ⷥ", "ⷦ", "ⷧ", "ⷨ",
     "ⷩ", "ⷪ", "ⷫ", "ⷬ", "ⷭ", "ⷮ", "ⷯ", "ⷰ", "ⷱ", "ⷲ", "ⷳ", "ⷴ",
     "ⷵ", "ⷶ", "ⷷ", "ⷸ", "ⷹ", "ⷺ", "ⷻ", "ⷼ", "ⷽ", "ⷾ", "ⷿ", "U+2E2F",
     "U+3005", "U+302A", "U+302B", "U+302C", "U+302D", "U+3031", "U+3032", "U+3033", "U+3034", "U+3035", "U+303B", "゙",
     "゚", "゛", "゜", "ゝ", "ゞ", "ー", "ヽ", "ヾ", "U+A015", "ꓸ", "ꓹ", "ꓺ",
     "ꓻ", "ꓼ", "ꓽ", "U+A60C", "U+A66F", "U+A670", "U+A671", "U+A672", "U+A674", "U+A675", "U+A676", "U+A677",
     "U+A678", "U+A679", "U+A67A", "U+A67B", "U+A67C", "U+A67D", "U+A67F", "ꚜ", "ꚝ", "ꚞ", "ꚟ", "꛰",
     "꛱", "U+A700", "U+A701", "U+A702", "U+A703", "U+A704", "U+A705", "U+A706", "U+A707", "U+A708", "U+A709", "U+A70A",
     "U+A70B", "U+A70C", "U+A70D", "U+A70E", "U+A70F", "U+A710", "U+A711", "U+A712", "U+A713", "U+A714", "U+A715", "U+A716",
     "U+A717", "U+A718", "U+A719", "U+A71A", "U+A71B", "U+A71C", "U+A71D", "U+A71E", "U+A71F", "U+A720", "U+A721", "U+A770",
     "ꞈ", "꞉", "꞊", "ꟲ", "ꟳ", "ꟴ", "ꟸ", "ꟹ", "U+A802", "U+A806", "U+A80B", "U+A825",
     "U+A826", "U+A82C", "꣄", "ꣅ", "꣠", "꣡", "꣢", "꣣", "꣤", "꣥", "꣦", "꣧",
     "꣨", "꣩", "꣪", "꣫", "꣬", "꣭", "꣮", "꣯", "꣰", "꣱", "ꣿ", "U+A926",
     "U+A927", "U+A928", "U+A929", "U+A92A", "U+A92B", "U+A92C", "U+A92D", "U+A947", "U+A948", "U+A949", "U+A94A", "U+A94B",
     "U+A94C", "U+A94D", "U+A94E", "U+A94F", "U+A950", "U+A951", "ꦀ", "ꦁ", "ꦂ", "꦳", "ꦶ", "ꦷ",
     "ꦸ", "ꦹ", "ꦼ", "ꦽ", "ꧏ", "ꧥ", "ꧦ", "U+AA29", "U+AA2A", "U+AA2B", "U+AA2C", "U+AA2D",
     "U+AA2E", "U+AA31", "U+AA32", "U+AA35", "U+AA36", "U+AA43", "U+AA4C", "U+AA70", "U+AA7C", "ꪰ", "ꪲ", "ꪳ",
     "ꪴ", "ꪷ", "ꪸ", "ꪾ", "꪿", "꫁", "ꫝ", "ꫬ", "ꫭ", "ꫳ", "ꫴ", "꫶",
     "U+AB5B", "U+AB5C", "U+AB5D", "U+AB5E", "U+AB5F", "U+AB69", "U+AB6A", "U+AB6B", "ꯥ", "ꯨ", "꯭", "U+FB1E",
     "﮲", "﮳", "﮴", "﮵", "﮶", "﮷", "﮸", "﮹", "﮺", "﮻", "﮼", "﮽",
     "﮾", "﮿", "﯀", "﯁", "﯂", "U+FE00", "U+FE01", "U+FE02", "U+FE03", "U+FE04", "U+FE05", "U+FE06",
     "U+FE07", "U+FE08", "U+FE09", "U+FE0A", "U+FE0B", "U+FE0C", "U+FE0D", "U+FE0E", "U+FE0F", "U+FE13", "U+FE20", "U+FE21",
     "U+FE22", "U+FE23", "U+FE24", "U+FE25", "U+FE26", "U+FE27", "U+FE28", "U+FE29", "U+FE2A", "U+FE2B", "U+FE2C", "U+FE2D",
     "U+FE2E", "U+FE2F", "U+FE52", "U+FE55", "﻿", "U+FF07", "U+FF0E", "U+FF1A", "U+FF3E", "U+FF40", "U+FF70", "ﾞ",
     "ﾟ", "￣", "￹", "￺", "￻", "U+101FD", "U+102E0", "U+10376", "U+10377", "U+10378", "U+10379", "U+1037A",
     "U+10780", "U+10781", "U+10782", "U+10783", "U+10784", "U+10785", "U+10787", "U+10788", "U+10789", "U+1078A", "U+1078B", "U+1078C",
     "U+1078D", "U+1078E", "U+1078F", "U+10790", "U+10791", "U+10792", "U+10793", "U+10794", "U+10795", "U+10796", "U+10797", "U+10798",
     "U+10799", "U+1079A", "U+1079B", "U+1079C", "U+1079D", "U+1079E", "U+1079F", "U+107A0", "U+107A1", "U+107A2", "U+107A3", "U+107A4",
     "U+107A5", "U+107A6", "U+107A7", "U+107A8", "U+107A9", "U+107AA", "U+107AB", "U+107AC", "U+107AD", "U+107AE", "U+107AF", "U+107B0",
     "U+107B2", "U+107B3", "U+107B4", "U+107B5", "U+107B6", "U+107B7", "U+107B8", "U+107B9", "U+107BA", "U+10A01", "U+10A02", "U+10A03",
     "U+10A05", "U+10A06", "U+10A0C", "U+10A0D", "U+10A0E", "U+10A0F", "U+10A38", "U+10A39", "U+10A3A", "U+10A3F", "U+10AE5", "U+10AE6",
     "U+10D24", "U+10D25", "U+10D26", "U+10D27", "U+10EAB", "U+10EAC", "U+10F46", "U+10F47", "U+10F48", "U+10F49", "U+10F4A", "U+10F4B",
     "U+10F4C", "U+10F4D", "U+10F4E", "U+10F4F", "U+10F50", "U+10F82", "U+10F83", "U+10F84", "U+10F85", "U+11001", "U+11038", "U+11039",
     "U+1103A", "U+1103B", "U+1103C", "U+1103D", "U+1103E", "U+1103F", "U+11040", "U+11041", "U+11042", "U+11043", "U+11044", "U+11045",
     "U+11046", "U+11070", "U+11073", "U+11074", "U+1107F", "U+11080", "U+11081", "U+110B3", "U+110B4", "U+110B5", "U+110B6", "U+110B9",
     "U+110BA", "U+110BD", "U+110C2", "U+110CD", "U+11100", "U+11101", "U+11102", "U+11127", "U+11128", "U+11129", "U+1112A", "U+1112B",
     "U+1112D", "U+1112E", "U+1112F", "U+11130", "U+11131", "U+11132", "U+11133", "U+11134", "U+11173", "U+11180", "U+11181", "U+111B6",
     "U+111B7", "U+111B8", "U+111B9", "U+111BA", "U+111BB", "U+111BC", "U+111BD", "U+111BE", "U+111C9", "U+111CA", "U+111CB", "U+111CC",
     "U+111CF", "U+1122F", "U+11230", "U+11231", "U+11234", "U+11236", "U+11237", "U+1123E", "U+112DF", "U+112E3", "U+112E4", "U+112E5",
     "U+112E6", "U+112E7", "U+112E8", "U+112E9", "U+112EA", "U+11300", "U+11301", "U+1133B", "U+1133C", "U+11340", "U+11366", "U+11367",
     "U+11368", "U+11369", "U+1136A", "U+1136B", "U+1136C", "U+11370", "U+11371", "U+11372", "U+11373", "U+11374", "U+11438", "U+11439",
     "U+1143A", "U+1143B", "U+1143C", "U+1143D", "U+1143E", "U+1143F", "U+11442", "U+11443", "U+11444", "U+11446", "U+1145E", "U+114B3",
     "U+114B4", "U+114B5", "U+114B6", "U+114B7", "U+114B8", "U+114BA", "U+114BF", "U+114C0", "U+114C2", "U+114C3", "U+115B2", "U+115B3",
     "U+115B4", "U+115B5", "U+115BC", "U+115BD", "U+115BF", "U+115C0", "U+115DC", "U+115DD", "U+11633", "U+11634", "U+11635", "U+11636",
     "U+11637", "U+11638", "U+11639", "U+1163A", "U+1163D", "U+1163F", "U+11640", "U+116AB", "U+116AD", "U+116B0", "U+116B1", "U+116B2",
     "U+116B3", "U+116B4", "U+116B5", "U+116B7", "U+1171D", "U+1171E", "U+1171F", "U+11722", "U+11723", "U+11724", "U+11725", "U+11727",
     "U+11728", "U+11729", "U+1172A", "U+1172B", "U+1182F", "U+11830", "U+11831", "U+11832", "U+11833", "U+11834", "U+11835", "U+11836",
     "U+11837", "U+11839", "U+1183A", "U+1193B", "U+1193C", "U+1193E", "U+11943", "U+119D4", "U+119D5", "U+119D6", "U+119D7", "U+119DA",
     "U+119DB", "U+119E0", "U+11A01", "U+11A02", "U+11A03", "U+11A04", "U+11A05", "U+11A06", "U+11A07", "U+11A08", "U+11A09", "U+11A0A",
     "U+11A33", "U+11A34", "U+11A35", "U+11A36", "U+11A37", "U+11A38", "U+11A3B", "U+11A3C", "U+11A3D", "U+11A3E", "U+11A47", "U+11A51",
     "U+11A52", "U+11A53", "U+11A54", "U+11A55", "U+11A56", "U+11A59", "U+11A5A", "U+11A5B", "U+11A8A", "U+11A8B", "U+11A8C", "U+11A8D",
     "U+11A8E", "U+11A8F", "U+11A90", "U+11A91", "U+11A92", "U+11A93", "U+11A94", "U+11A95", "U+11A96", "U+11A98", "U+11A99", "U+11C30",
     "U+11C31", "U+11C32", "U+11C33", "U+11C34", "U+11C35", "U+11C36", "U+11C38", "U+11C39", "U+11C3A", "U+11C3B", "U+11C3C", "U+11C3D",
     "U+11C3F", "U+11C92", "U+11C93", "U+11C94", "U+11C95", "U+11C96", "U+11C97", "U+11C98", "U+11C99", "U+11C9A", "U+11C9B", "U+11C9C",
     "U+11C9D", "U+11C9E", "U+11C9F", "U+11CA0", "U+11CA1", "U+11CA2", "U+11CA3", "U+11CA4", "U+11CA5", "U+11CA6", "U+11CA7", "U+11CAA",
     "U+11CAB", "U+11CAC", "U+11CAD", "U+11CAE", "U+11CAF", "U+11CB0", "U+11CB2", "U+11CB3", "U+11CB5", "U+11CB6", "U+11D31", "U+11D32",
     "U+11D33", "U+11D34", "U+11D35", "U+11D36", "U+11D3A", "U+11D3C", "U+11D3D", "U+11D3F", "U+11D40", "U+11D41", "U+11D42", "U+11D43",
     "U+11D44", "U+11D45", "U+11D47", "U+11D90", "U+11D91", "U+11D95", "U+11D97", "U+11EF3", "U+11EF4", "U+13430", "U+13431", "U+13432",
     "U+13433", "U+13434", "U+13435", "U+13436", "U+13437", "U+13438", "U+16AF0", "U+16AF1", "U+16AF2", "U+16AF3", "U+16AF4", "U+16B30",
     "U+16B31", "U+16B32", "U+16B33", "U+16B34", "U+16B35", "U+16B36", "U+16B40", "U+16B41", "U+16B42", "U+16B43", "U+16F4F", "U+16F8F",
     "U+16F90", "U+16F91", "U+16F92", "U+16F93", "U+16F94", "U+16F95", "U+16F96", "U+16F97", "U+16F98", "U+16F99", "U+16F9A", "U+16F9B",
     "U+16F9C", "U+16F9D", "U+16F9E", "U+16F9F", "U+16FE0", "U+16FE1", "U+16FE3", "U+16FE4", "U+1AFF0", "U+1AFF1", "U+1AFF2", "U+1AFF3",
     "U+1AFF5", "U+1AFF6", "U+1AFF7", "U+1AFF8", "U+1AFF9", "U+1AFFA", "U+1AFFB", "U+1AFFD", "U+1AFFE", "U+1BC9D", "U+1BC9E", "U+1BCA0",
     "U+1BCA1", "U+1BCA2", "U+1BCA3", "U+1CF00", "U+1CF01", "U+1CF02", "U+1CF03", "U+1CF04", "U+1CF05", "U+1CF06", "U+1CF07", "U+1CF08",
     "U+1CF09", "U+1CF0A", "U+1CF0B", "U+1CF0C", "U+1CF0D", "U+1CF0E", "U+1CF0F", "U+1CF10", "U+1CF11", "U+1CF12", "U+1CF13", "U+1CF14",
     "U+1CF15", "U+1CF16", "U+1CF17", "U+1CF18", "U+1CF19", "U+1CF1A", "U+1CF1B", "U+1CF1C", "U+1CF1D", "U+1CF1E", "U+1CF1F", "U+1CF20",
     "U+1CF21", "U+1CF22", "U+1CF23", "U+1CF24", "U+1CF25", "U+1CF26", "U+1CF27", "U+1CF28", "U+1CF29", "U+1CF2A", "U+1CF2B", "U+1CF2C",
     "U+1CF2D", "U+1CF30", "U+1CF31", "U+1CF32", "U+1CF33", "U+1CF34", "U+1CF35", "U+1CF36", "U+1CF37", "U+1CF38", "U+1CF39", "U+1CF3A",
     "U+1CF3B", "U+1CF3C", "U+1CF3D", "U+1CF3E", "U+1CF3F", "U+1CF40", "U+1CF41", "U+1CF42", "U+1CF43", "U+1CF44", "U+1CF45", "U+1CF46",
     "U+1D167", "U+1D168", "U+1D169", "U+1D173", "U+1D174", "U+1D175", "U+1D176", "U+1D177", "U+1D178", "U+1D179", "U+1D17A", "U+1D17B",
     "U+1D17C", "U+1D17D", "U+1D17E", "U+1D17F", "U+1D180", "U+1D181", "U+1D182", "U+1D185", "U+1D186", "U+1D187", "U+1D188", "U+1D189",
     "U+1D18A", "U+1D18B", "U+1D1AA", "U+1D1AB", "U+1D1AC", "U+1D1AD", "U+1D242", "U+1D243", "U+1D244", "U+1DA00", "U+1DA01", "U+1DA02",
     "U+1DA03", "U+1DA04", "U+1DA05", "U+1DA06", "U+1DA07", "U+1DA08", "U+1DA09", "U+1DA0A", "U+1DA0B", "U+1DA0C", "U+1DA0D", "U+1DA0E",
     "U+1DA0F", "U+1DA10", "U+1DA11", "U+1DA12", "U+1DA13", "U+1DA14", "U+1DA15", "U+1DA16", "U+1DA17", "U+1DA18", "U+1DA19", "U+1DA1A",
     "U+1DA1B", "U+1DA1C", "U+1DA1D", "U+1DA1E", "U+1DA1F", "U+1DA20", "U+1DA21", "U+1DA22", "U+1DA23", "U+1DA24", "U+1DA25", "U+1DA26",
     "U+1DA27", "U+1DA28", "U+1DA29", "U+1DA2A", "U+1DA2B", "U+1DA2C", "U+1DA2D", "U+1DA2E", "U+1DA2F", "U+1DA30", "U+1DA31", "U+1DA32",
     "U+1DA33", "U+1DA34", "U+1DA35", "U+1DA36", "U+1DA3B", "U+1DA3C", "U+1DA3D", "U+1DA3E", "U+1DA3F", "U+1DA40", "U+1DA41", "U+1DA42",
     "U+1DA43", "U+1DA44", "U+1DA45", "U+1DA46", "U+1DA47", "U+1DA48", "U+1DA49", "U+1DA4A", "U+1DA4B", "U+1DA4C", "U+1DA4D", "U+1DA4E",
     "U+1DA4F", "U+1DA50", "U+1DA51", "U+1DA52", "U+1DA53", "U+1DA54", "U+1DA55", "U+1DA56", "U+1DA57", "U+1DA58", "U+1DA59", "U+1DA5A",
     "U+1DA5B", "U+1DA5C", "U+1DA5D", "U+1DA5E", "U+1DA5F", "U+1DA60", "U+1DA61", "U+1DA62", "U+1DA63", "U+1DA64", "U+1DA65", "U+1DA66",
     "U+1DA67", "U+1DA68", "U+1DA69", "U+1DA6A", "U+1DA6B", "U+1DA6C", "U+1DA75", "U+1DA84", "U+1DA9B", "U+1DA9C", "U+1DA9D", "U+1DA9E",
     "U+1DA9F", "U+1DAA1", "U+1DAA2", "U+1DAA3", "U+1DAA4", "U+1DAA5", "U+1DAA6", "U+1DAA7", "U+1DAA8", "U+1DAA9", "U+1DAAA", "U+1DAAB",
     "U+1DAAC", "U+1DAAD", "U+1DAAE", "U+1DAAF", "U+1E000", "U+1E001", "U+1E002", "U+1E003", "U+1E004", "U+1E005", "U+1E006", "U+1E008",
     "U+1E009", "U+1E00A", "U+1E00B", "U+1E00C", "U+1E00D", "U+1E00E", "U+1E00F", "U+1E010", "U+1E011", "U+1E012", "U+1E013", "U+1E014",
     "U+1E015", "U+1E016", "U+1E017", "U+1E018", "U+1E01B", "U+1E01C", "U+1E01D", "U+1E01E", "U+1E01F", "U+1E020", "U+1E021", "U+1E023",
     "U+1E024", "U+1E026", "U+1E027", "U+1E028", "U+1E029", "U+1E02A", "U+1E130", "U+1E131", "U+1E132", "U+1E133", "U+1E134", "U+1E135",
     "U+1E136", "U+1E137", "U+1E138", "U+1E139", "U+1E13A", "U+1E13B", "U+1E13C", "U+1E13D", "U+1E2AE", "U+1E2EC", "U+1E2ED", "U+1E2EE",
     "U+1E2EF", "U+1E8D0", "U+1E8D1", "U+1E8D2", "U+1E8D3", "U+1E8D4", "U+1E8D5", "U+1E8D6", "U+1E944", "U+1E945", "U+1E946", "U+1E947",
     "U+1E948", "U+1E949", "U+1E94A", "U+1E94B", "U+1F3FB", "U+1F3FC", "U+1F3FD", "U+1F3FE", "U+1F3FF", "U+E0001", "U+E0020", "U+E0021",
     "U+E0022", "U+E0023", "U+E0024", "U+E0025", "U+E0026", "U+E0027", "U+E0028", "U+E0029", "U+E002A", "U+E002B", "U+E002C", "U+E002D",
     "U+E002E", "U+E002F", "U+E0030", "U+E0031", "U+E0032", "U+E0033", "U+E0034", "U+E0035", "U+E0036", "U+E0037", "U+E0038", "U+E0039",
     "U+E003A", "U+E003B", "U+E003C", "U+E003D", "U+E003E", "U+E003F", "U+E0040", "U+E0041", "U+E0042", "U+E0043", "U+E0044", "U+E0045",
     "U+E0046", "U+E0047", "U+E0048", "U+E0049", "U+E004A", "U+E004B", "U+E004C", "U+E004D", "U+E004E", "U+E004F", "U+E0050", "U+E0051",
     "U+E0052", "U+E0053", "U+E0054", "U+E0055", "U+E0056", "U+E0057", "U+E0058", "U+E0059", "U+E005A", "U+E005B", "U+E005C", "U+E005D",
     "U+E005E", "U+E005F", "U+E0060", "U+E0061", "U+E0062", "U+E0063", "U+E0064", "U+E0065", "U+E0066", "U+E0067", "U+E0068", "U+E0069",
     "U+E006A", "U+E006B", "U+E006C", "U+E006D", "U+E006E", "U+E006F", "U+E0070", "U+E0071", "U+E0072", "U+E0073", "U+E0074", "U+E0075",
     "U+E0076", "U+E0077", "U+E0078", "U+E0079", "U+E007A", "U+E007B", "U+E007C", "U+E007D", "U+E007E", "U+E007F", "U+E0100", "U+E0101",
     "U+E0102", "U+E0103", "U+E0104", "U+E0105", "U+E0106", "U+E0107", "U+E0108", "U+E0109", "U+E010A", "U+E010B", "U+E010C", "U+E010D",
     "U+E010E", "U+E010F", "U+E0110", "U+E0111", "U+E0112", "U+E0113", "U+E0114", "U+E0115", "U+E0116", "U+E0117", "U+E0118", "U+E0119",
     "U+E011A", "U+E011B", "U+E011C", "U+E011D", "U+E011E", "U+E011F", "U+E0120", "U+E0121", "U+E0122", "U+E0123", "U+E0124", "U+E0125",
     "U+E0126", "U+E0127", "U+E0128", "U+E0129", "U+E012A", "U+E012B", "U+E012C", "U+E012D", "U+E012E", "U+E012F", "U+E0130", "U+E0131",
     "U+E0132", "U+E0133", "U+E0134", "U+E0135", "U+E0136", "U+E0137", "U+E0138", "U+E0139", "U+E013A", "U+E013B", "U+E013C", "U+E013D",
     "U+E013E", "U+E013F", "U+E0140", "U+E0141", "U+E0142", "U+E0143", "U+E0144", "U+E0145", "U+E0146", "U+E0147", "U+E0148", "U+E0149",
     "U+E014A", "U+E014B", "U+E014C", "U+E014D", "U+E014E", "U+E014F", "U+E0150", "U+E0151", "U+E0152", "U+E0153", "U+E0154", "U+E0155",
     "U+E0156", "U+E0157", "U+E0158", "U+E0159", "U+E015A", "U+E015B", "U+E015C", "U+E015D", "U+E015E", "U+E015F", "U+E0160", "U+E0161",
     "U+E0162", "U+E0163", "U+E0164", "U+E0165", "U+E0166", "U+E0167", "U+E0168", "U+E0169", "U+E016A", "U+E016B", "U+E016C", "U+E016D",
     "U+E016E", "U+E016F", "U+E0170", "U+E0171", "U+E0172", "U+E0173", "U+E0174", "U+E0175", "U+E0176", "U+E0177", "U+E0178", "U+E0179",
     "U+E017A", "U+E017B", "U+E017C", "U+E017D", "U+E017E", "U+E017F", "U+E0180", "U+E0181", "U+E0182", "U+E0183", "U+E0184", "U+E0185",
     "U+E0186", "U+E0187", "U+E0188", "U+E0189", "U+E018A", "U+E018B", "U+E018C", "U+E018D", "U+E018E", "U+E018F", "U+E0190", "U+E0191",
     "U+E0192", "U+E0193", "U+E0194", "U+E0195", "U+E0196", "U+E0197", "U+E0198", "U+E0199", "U+E019A", "U+E019B", "U+E019C", "U+E019D",
     "U+E019E", "U+E019F", "U+E01A0", "U+E01A1", "U+E01A2", "U+E01A3", "U+E01A4", "U+E01A5", "U+E01A6", "U+E01A7", "U+E01A8", "U+E01A9",
     "U+E01AA", "U+E01AB", "U+E01AC", "U+E01AD", "U+E01AE", "U+E01AF", "U+E01B0", "U+E01B1", "U+E01B2", "U+E01B3", "U+E01B4", "U+E01B5",
     "U+E01B6", "U+E01B7", "U+E01B8", "U+E01B9", "U+E01BA", "U+E01BB", "U+E01BC", "U+E01BD", "U+E01BE", "U+E01BF", "U+E01C0", "U+E01C1",
     "U+E01C2", "U+E01C3", "U+E01C4", "U+E01C5", "U+E01C6", "U+E01C7", "U+E01C8", "U+E01C9", "U+E01CA", "U+E01CB", "U+E01CC", "U+E01CD",
     "U+E01CE", "U+E01CF", "U+E01D0", "U+E01D1", "U+E01D2", "U+E01D3", "U+E01D4", "U+E01D5", "U+E01D6", "U+E01D7", "U+E01D8", "U+E01D9",
     "U+E01DA", "U+E01DB", "U+E01DC", "U+E01DD", "U+E01DE", "U+E01DF", "U+E01E0", "U+E01E1", "U+E01E2", "U+E01E3", "U+E01E4", "U+E01E5",
     "U+E01E6", "U+E01E7", "U+E01E8", "U+E01E9", "U+E01EA", "U+E01EB", "U+E01EC", "U+E01ED", "U+E01EE", "U+E01EF"}

\* str.lower() on one character that is not a capital sigma: a string, for
\* the capital I with a dot above becomes two characters
LowerChar(c) ==
    IF c = "U+0130" THEN <<"i", "U+0307">>
    ELSE IF c \in DOMAIN LowerMap THEN <<LowerMap[c]>>
    ELSE <<c>>

\* a capital sigma is final, and becomes the final small sigma, when a cased
\* letter comes before it and none after it, case-ignorable characters
\* skipped on both sides
FinalSigma(str, i) ==
    /\ \E j \in 1..(i - 1) :
          /\ str[j] \in Cased
          /\ \A k \in (j + 1)..(i - 1) : str[k] \in CaseIgnorable
    /\ ~ \E j \in (i + 1)..Len(str) :
          /\ str[j] \in Cased
          /\ \A k \in (i + 1)..(j - 1) : str[k] \in CaseIgnorable

RECURSIVE lower_from(_, _)
lower_from(str, i) ==
    IF i > Len(str) THEN <<>>
    ELSE (IF str[i] = "Σ"
          THEN (IF FinalSigma(str, i) THEN <<"ς">> ELSE <<"σ">>)
          ELSE LowerChar(str[i]))
         \o lower_from(str, i + 1)

\* str.lower()
lower(str) == lower_from(str, 1)

RECURSIVE lstrip(_, _)
lstrip(str, chars) ==
    IF str # <<>> /\ Head(str) \in chars THEN lstrip(Tail(str), chars) ELSE str

RECURSIVE rstrip(_, _)
rstrip(str, chars) ==
    IF str # <<>> /\ str[Len(str)] \in chars
    THEN rstrip(SubSeq(str, 1, Len(str) - 1), chars) ELSE str

\* str.strip(chars)
strip_chars(str, chars) == rstrip(lstrip(str, chars), chars)

\* str.strip()
strip(str) == strip_chars(str, Whitespace)

\* sep.join(parts)
RECURSIVE join(_, _)
join(sep, parts) ==
    IF parts = <<>> THEN <<>>
    ELSE IF Len(parts) = 1 THEN parts[1]
    ELSE parts[1] \o sep \o join(sep, Tail(parts))

\* str.startswith(prefix)
startswith(str, prefix) ==
    Len(str) >= Len(prefix) /\ SubSeq(str, 1, Len(prefix)) = prefix

\* sub in str
contains(str, sub) ==
    \E i \in 1..(Len(str) - Len(sub) + 1) : SubSeq(str, i, i + Len(sub) - 1) = sub

\* str.split(sep)[0]
split_first(str, sep) ==
    IF contains(str, sep)
    THEN LET i == CHOOSE k \in 1..(Len(str) - Len(sep) + 1) :
                      /\ SubSeq(str, k, k + Len(sep) - 1) = sep
                      /\ \A j \in 1..(k - 1) : SubSeq(str, j, j + Len(sep) - 1) # sep
         IN SubSeq(str, 1, i - 1)
    ELSE str


---------------------------------------------------------------------------
(* xml.etree.ElementTree.                                                  *)

Element(tag, kind, txt, children, tail) ==
    [tag |-> tag, kind |-> kind, text |-> txt, children |-> children, tail |-> tail]

Leaf(tag, txt) == Element(tag, "", txt, <<>>, <<>>)
Node(tag, kind, children) == Element(tag, kind, <<>>, children, <<>>)

\* Python's None where an element is expected
None == Element("<None>", "", <<>>, <<>>, <<>>)

\* ET.Element('')
EmptyElement == Element("", "", <<>>, <<>>, <<>>)

\* bool(element): an element with no children is false
Truthy(e) == e # None /\ Len(e.children) > 0

\* a or b, for elements
OrElem(a, b) == IF Truthy(a) THEN a ELSE b

\* a or b, for strings
OrStr(a, b) == IF a # <<>> THEN a ELSE b

RECURSIVE itertext(_)
RECURSIVE itertext_children(_)
\* "".join(e.itertext())
itertext(e) == e.text \o itertext_children(e.children)
itertext_children(cs) ==
    IF cs = <<>> THEN <<>>
    ELSE itertext(Head(cs)) \o Head(cs).tail \o itertext_children(Tail(cs))

\* e.findall(tag)
findall(e, tag) == SelectSeq(e.children, LAMBDA c : c.tag = tag)

\* e.find(tag)
find(e, tag) == IF findall(e, tag) = <<>> THEN None ELSE findall(e, tag)[1]

\* e.findtext(tag) or ''
findtext(e, tag) == find(e, tag).text

\* e.get('kind', '')
get_kind(e) == e.kind

RECURSIVE descendants(_)
RECURSIVE descendants_of(_)
\* the descendants of e in document order
descendants(e) == descendants_of(e.children)
descendants_of(cs) ==
    IF cs = <<>> THEN <<>>
    ELSE <<Head(cs)>> \o descendants(Head(cs)) \o descendants_of(Tail(cs))

\* e.findall('.//' + tag)
findall_deep(e, tag) == SelectSeq(descendants(e), LAMBDA c : c.tag = tag)

---------------------------------------------------------------------------
(* _text_from_elem (convert.py 12-27).                                     *)


\* lines 17-21: the stripped, non-empty texts of the direct <para> children
RECURSIVE para_texts(_)
para_texts(ps) ==
    IF ps = <<>> THEN <<>>
    ELSE LET t == strip(itertext(Head(ps)))
         IN (IF t # <<>> THEN <<t>> ELSE <<>>) \o para_texts(Tail(ps))

\* lines 23-26: "if not paras": the element's whole text, if non-empty
text_fallback(e, ps) ==
    IF ps = <<>>
    THEN LET t == strip(itertext(e)) IN IF t # <<>> THEN <<t>> ELSE <<>>
    ELSE ps

_text_from_elem(e) == join(<<NL, NL>>, text_fallback(e, para_texts(findall(e, "para"))))

---------------------------------------------------------------------------
(* _anchor (convert.py 93-100).                                            *)

\* the character class [a-z0-9]
InClass(c) ==
    c \in {"a","b","c","d","e","f","g","h","i","j","k","l","m",
           "n","o","p","q","r","s","t","u","v","w","x","y","z",
           "0","1","2","3","4","5","6","7","8","9"}

RECURSIVE skip_run(_)
\* the rest of str after its leading run of characters outside the class
skip_run(str) ==
    IF str # <<>> /\ ~InClass(Head(str)) THEN skip_run(Tail(str)) ELSE str

\* the substitution without the "+": every character outside the class becomes
\* a hyphen of its own
re_sub_each(str) == [i \in 1..Len(str) |-> IF InClass(str[i]) THEN str[i] ELSE "-"]

RECURSIVE re_sub(_)
\* re.sub(r"[^a-z0-9]+", "-", str)
re_sub(str) ==
    IF str = <<>> THEN <<>>
    ELSE IF InClass(Head(str)) THEN <<Head(str)>> \o re_sub(Tail(str))
    ELSE <<"-">> \o re_sub(skip_run(str))

_anchor(str) == strip_chars(re_sub(lower(str)), {"-"})

---------------------------------------------------------------------------
(* The string literals of convert.py and cli.py.                           *)

L_h2 == <<"#", "#", " ">>
L_enum == <<"#", "#", "#", " ", "E", "n", "u", "m", ":", " ">>
L_item_open == <<"-", " ", BT>>
L_item_mid == <<BT, ":", " ">>
L_returns_prefix == <<"*", "*", "R", "e", "t", "u", "r", "n", "s", ":", "*", "*">>
L_table_rule == <<"|", " ", "-", "-", "-", " ", "|", " ", "-", "-", "-", " ", "|", " ", "-", "-", "-", " ", "|">>
L_link_open == <<"[", BT>>
L_type_link == <<BT, "]", "(", "#", "t", "y", "p", "e", "-">>
L_link_close == <<")">>
L_tick == <<BT>>
L_type == <<"*", "*", "T", "y", "p", "e", ":", "*", "*", " ">>
L_row_sep == <<" ", "|", " ">>
L_global == <<"g", "l", "o", "b", "a", "l">>
L_scope == <<":", ":">>

---------------------------------------------------------------------------
(* convert: the compounddef loop (convert.py 52-82).                       *)

\* lines 58-62, 63-67, 73-77: "if d is not None: t = _text_from_elem(d);
\* if t: md_parts.append(t)"
desc_block(d) ==
    IF d # None /\ _text_from_elem(d) # <<>> THEN <<_text_from_elem(d)>> ELSE <<>>

\* line 81 / line 140: _text_from_elem(e.find('briefdescription') or ET.Element(''))
brief_or_empty(e) == _text_from_elem(OrElem(find(e, "briefdescription"), EmptyElement))

\* lines 80-82: one enumvalue
enumvalue_item(ev) ==
    L_item_open \o OrStr(findtext(ev, "name"), findtext(ev, "id"))
                \o L_item_mid \o brief_or_empty(ev)

\* lines 71-82: one enum
enum_blocks(enum) ==
    LET evs == findall(enum, "enumvalue")
    IN <<L_enum \o OrStr(findtext(enum, "name"), findtext(enum, "definition"))>>
       \o desc_block(find(enum, "briefdescription"))
       \o [i \in 1..Len(evs) |-> enumvalue_item(evs[i])]

RECURSIVE enums_blocks(_)
enums_blocks(enums) ==
    IF enums = <<>> THEN <<>>
    ELSE enum_blocks(Head(enums)) \o enums_blocks(Tail(enums))

\* the kinds without the namespace
HeadedKindsNoNamespace == {"class", "struct"}

\* line 56
HeadedKinds == {"class", "struct", "namespace"}

\* lines 54-67: the heading and the descriptions of one compounddef
compound_head(comp) ==
    IF get_kind(comp) \in HeadedKinds
    THEN <<L_h2 \o findtext(comp, "compoundname")>>
         \o desc_block(find(comp, "briefdescription"))
         \o desc_block(find(comp, "detaileddescription"))
    ELSE <<>>

\* lines 54-82: one pass of the loop body
compound_blocks(comp) ==
    compound_head(comp) \o enums_blocks(findall_deep(comp, "enum"))

---------------------------------------------------------------------------
(* convert: the memberdef loop (convert.py 84-167).                        *)

\* lines 105-109
member_brief(member) ==
    LET brief == find(member, "briefdescription")
    IN IF brief # None /\ _text_from_elem(brief) # <<>>
       THEN << <<"*", "*", "B", "r", "i", "e", "f", ":", "*", "*", " ">>
               \o _text_from_elem(brief) >>
       ELSE <<>>

\* lines 120-122: one programlisting
code_block(prog) ==
    LET code == strip_chars(itertext(prog), {NL})
    IN IF code # <<>>
       THEN << <<BT, BT, BT, "c", "p", "p", NL>> \o strip(code) \o <<NL, BT, BT, BT>> >>
       ELSE <<>>

RECURSIVE listing_blocks(_)
\* lines 119-122
listing_blocks(progs) ==
    IF progs = <<>> THEN <<>>
    ELSE code_block(Head(progs)) \o listing_blocks(Tail(progs))

\* lines 126-129: one simplesect
return_block(sect) ==
    IF get_kind(sect) = "return" /\ _text_from_elem(sect) # <<>>
    THEN << <<"*", "*", "R", "e", "t", "u", "r", "n", "s", ":", "*", "*", " ">>
            \o _text_from_elem(sect) >>
    ELSE <<>>

RECURSIVE return_blocks(_)
\* lines 125-129
return_blocks(sects) ==
    IF sects = <<>> THEN <<>>
    ELSE return_block(Head(sects)) \o return_blocks(Tail(sects))

\* lines 112-129
detailed_blocks(member) ==
    LET detailed == find(member, "detaileddescription")
    IN IF detailed = None THEN <<>>
       ELSE desc_block(detailed)
            \o listing_blocks(findall(detailed, "programlisting"))
            \o return_blocks(findall(detailed, "simplesect"))

\* line 138
param_name(p) == OrStr(findtext(p, "declname"), findtext(p, "defname"))

\* line 139
param_type(p) == strip(findtext(p, "type"))

\* the type cell linked whatever the slug
type_cell_always_link(ptype) ==
    L_link_open \o ptype \o L_type_link \o _anchor(ptype) \o L_link_close

\* lines 142-145
type_cell(ptype) ==
    IF _anchor(ptype) # <<>>
    THEN L_link_open \o ptype \o L_type_link \o _anchor(ptype) \o L_link_close
    ELSE L_tick \o ptype \o L_tick

\* lines 147-148
name_cell(pname, func_anchor) ==
    IF pname # <<>>
    THEN L_link_open \o pname \o <<BT, "]", "(", "#">> \o func_anchor \o <<"-">>
         \o _anchor(pname) \o L_link_close
    ELSE <<>>

\* lines 138-149: one table row
param_row(p, func_anchor) ==
    <<"|", " ">> \o name_cell(param_name(p), func_anchor)
    \o L_row_sep \o type_cell(param_type(p))
    \o L_row_sep \o brief_or_empty(p) \o <<" ", "|">>

\* lines 132-149
param_blocks(member, func_anchor) ==
    LET params == findall(member, "param")
    IN IF params # <<>>
       THEN << <<"*", "*", "P", "a", "r", "a", "m", "e", "t", "e", "r", "s", ":", "*", "*">>,
               <<"|", " ", "N", "a", "m", "e", " ", "|", " ", "T", "y", "p", "e", " ", "|", " ",
                 "D", "e", "s", "c", "r", "i", "p", "t", "i", "o", "n", " ", "|">>,
               L_table_rule >>
            \o [i \in 1..Len(params) |-> param_row(params[i], func_anchor)]
       ELSE <<>>

\* lines 156-157
template_name(t) == strip(OrStr(findtext(t, "type"), strip(itertext(t))))

\* lines 152-161. Line 152: member.find('templateparamlist') or
\* member.find('../templateparamlist'); the second find starts at the member
\* itself, whose parent is outside the searched subtree, and returns None
template_blocks(member) ==
    LET tpl == OrElem(find(member, "templateparamlist"), None)
        tps == IF tpl = None THEN <<>> ELSE findall(tpl, "param")
    IN IF tps # <<>>
       THEN << <<"*", "*", "T", "e", "m", "p", "l", "a", "t", "e", " ",
                 "p", "a", "r", "a", "m", "e", "t", "e", "r", "s", ":", "*", "*">> >>
            \o [i \in 1..Len(tps) |-> <<"-", " ">> \o template_name(tps[i])]
       ELSE <<>>

\* md_parts[-3:]
last3(md) == SubSeq(md, IF Len(md) > 3 THEN Len(md) - 2 ELSE 1, Len(md))

\* lines 164-165
type_fallback(ret_type, md) ==
    IF ret_type # <<>>
       /\ ~(\E i \in 1..Len(last3(md)) : startswith(last3(md)[i], L_returns_prefix))
    THEN <<L_type \o ret_type>> ELSE <<>>

\* line 102
func_anchor_of(member) ==
    _anchor(findtext(member, "name") \o <<" ">> \o findtext(member, "argsstring"))

\* lines 86-167: md_parts after one pass of the loop body
member_blocks(member, md) ==
    LET ret_type == strip(findtext(member, "type"))
        upto == md \o << <<"#", "#", "#", " ">> \o findtext(member, "name")
                           \o findtext(member, "argsstring") >>
                   \o member_brief(member)
                   \o detailed_blocks(member)
                   \o param_blocks(member, func_anchor_of(member))
                   \o template_blocks(member)
    IN upto \o type_fallback(ret_type, upto) \o << <<>> >>

---------------------------------------------------------------------------
(* ET.fromstring (convert.py 45-48): the XML text is a sequence of tokens. *)

StartTag(tag, kind) == [t |-> "start", tag |-> tag, kind |-> kind, s |-> <<>>]
EndTag(tag)         == [t |-> "end",   tag |-> tag, kind |-> "",   s |-> <<>>]
\* character data as it is written ("<" and "&" stand for &lt; and &amp;)
Data(str)           == [t |-> "data",  tag |-> "",  kind |-> "",   s |-> str]
\* a character reference, such as &#13; for CharRef("\r")
CharRef(c)          == [t |-> "ref",   tag |-> "",  kind |-> "",   s |-> <<c>>]
\* markup that is no tag at all, such as a lone "<"
Stray               == [t |-> "stray", tag |-> "",  kind |-> "",   s |-> <<>>]

\* the byte order mark U+FEFF, which the parser takes off the very start of
\* the text
BOM == "﻿"

\* the surrogate code points U+D800..U+DFFF: a str may hold one, no UTF-8
\* text can
Surrogates ==
    {"U+D800", "U+D801", "U+D802", "U+D803", "U+D804", "U+D805", "U+D806", "U+D807",
     "U+D808", "U+D809", "U+D80A", "U+D80B", "U+D80C", "U+D80D", "U+D80E", "U+D80F",
     "U+D810", "U+D811", "U+D812", "U+D813", "U+D814", "U+D815", "U+D816", "U+D817",
     "U+D818", "U+D819", "U+D81A", "U+D81B", "U+D81C", "U+D81D", "U+D81E", "U+D81F",
     "U+D820", "U+D821", "U+D822", "U+D823", "U+D824", "U+D825", "U+D826", "U+D827",
     "U+D828", "U+D829", "U+D82A", "U+D82B", "U+D82C", "U+D82D", "U+D82E", "U+D82F",
     "U+D830", "U+D831", "U+D832", "U+D833", "U+D834", "U+D835", "U+D836", "U+D837",
     "U+D838", "U+D839", "U+D83A", "U+D83B", "U+D83C", "U+D83D", "U+D83E", "U+D83F",
     "U+D840", "U+D841", "U+D842", "U+D843", "U+D844", "U+D845", "U+D846", "U+D847",
     "U+D848", "U+D849", "U+D84A", "U+D84B", "U+D84C", "U+D84D", "U+D84E", "U+D84F",
     "U+D850", "U+D851", "U+D852", "U+D853", "U+D854", "U+D855", "U+D856", "U+D857",
     "U+D858", "U+D859", "U+D85A", "U+D85B", "U+D85C", "U+D85D", "U+D85E", "U+D85F",
     "U+D860", "U+D861", "U+D862", "U+D863", "U+D864", "U+D865", "U+D866", "U+D867",
     "U+D868", "U+D869", "U+D86A", "U+D86B", "U+D86C", "U+D86D", "U+D86E", "U+D86F",
     "U+D870", "U+D871", "U+D872", "U+D873", "U+D874", "U+D875", "U+D876", "U+D877",
     "U+D878", "U+D879", "U+D87A", "U+D87B", "U+D87C", "U+D87D", "U+D87E", "U+D87F",
     "U+D880", "U+D881", "U+D882", "U+D883", "U+D884", "U+D885", "U+D886", "U+D887",
     "U+D888", "U+D889", "U+D88A", "U+D88B", "U+D88C", "U+D88D", "U+D88E", "U+D88F",
     "U+D890", "U+D891", "U+D892", "U+D893", "U+D894", "U+D895", "U+D896", "U+D897",
     "U+D898", "U+D899", "U+D89A", "U+D89B", "U+D89C", "U+D89D", "U+D89E", "U+D89F",
     "U+D8A0", "U+D8A1", "U+D8A2", "U+D8A3", "U+D8A4", "U+D8A5", "U+D8A6", "U+D8A7",
     "U+D8A8", "U+D8A9", "U+D8AA", "U+D8AB", "U+D8AC", "U+D8AD", "U+D8AE", "U+D8AF",
     "U+D8B0", "U+D8B1", "U+D8B2", "U+D8B3", "U+D8B4", "U+D8B5", "U+D8B6", "U+D8B7",
     "U+D8B8", "U+D8B9", "U+D8BA", "U+D8BB", "U+D8BC", "U+D8BD", "U+D8BE", "U+D8BF",
     "U+D8C0", "U+D8C1", "U+D8C2", "U+D8C3", "U+D8C4", "U+D8C5", "U+D8C6", "U+D8C7",
     "U+D8C8", "U+D8C9", "U+D8CA", "U+D8CB", "U+D8CC", "U+D8CD", "U+D8CE", "U+D8CF",
     "U+D8D0", "U+D8D1", "U+D8D2", "U+D8D3", "U+D8D4", "U+D8D5", "U+D8D6", "U+D8D7",
     "U+D8D8", "U+D8D9", "U+D8DA", "U+D8DB", "U+D8DC", "U+D8DD", "U+D8DE", "U+D8DF",
     "U+D8E0", "U+D8E1", "U+D8E2", "U+D8E3", "U+D8E4", "U+D8E5", "U+D8E6", "U+D8E7",
     "U+D8E8", "U+D8E9", "U+D8EA", "U+D8EB", "U+D8EC", "U+D8ED", "U+D8EE", "U+D8EF",
     "U+D8F0", "U+D8F1", "U+D8F2", "U+D8F3", "U+D8F4", "U+D8F5", "U+D8F6", "U+D8F7",
     "U+D8F8", "U+D8F9", "U+D8FA", "U+D8FB", "U+D8FC", "U+D8FD", "U+D8FE", "U+D8FF",
     "U+D900", "U+D901", "U+D902", "U+D903", "U+D904", "U+D905", "U+D906", "U+D907",
     "U+D908", "U+D909", "U+D90A", "U+D90B", "U+D90C", "U+D90D", "U+D90E", "U+D90F",
     "U+D910", "U+D911", "U+D912", "U+D913", "U+D914", "U+D915", "U+D916", "U+D917",
     "U+D918", "U+D919", "U+D91A", "U+D91B", "U+D91C", "U+D91D", "U+D91E", "U+D91F",
     "U+D920", "U+D921", "U+D922", "U+D923", "U+D924", "U+D925", "U+D926", "U+D927",
     "U+D928", "U+D929", "U+D92A", "U+D92B", "U+D92C", "U+D92D", "U+D92E", "U+D92F",
     "U+D930", "U+D931", "U+D932", "U+D933", "U+D934", "U+D935", "U+D936", "U+D937",
     "U+D938", "U+D939", "U+D93A", "U+D93B", "U+D93C", "U+D93D", "U+D93E", "U+D93F",
     "U+D940", "U+D941", "U+D942", "U+D943", "U+D944", "U+D945", "U+D946", "U+D947",
     "U+D948", "U+D949", "U+D94A", "U+D94B", "U+D94C", "U+D94D", "U+D94E", "U+D94F",
     "U+D950", "U+D951", "U+D952", "U+D953", "U+D954", "U+D955", "U+D956", "U+D957",
     "U+D958", "U+D959", "U+D95A", "U+D95B", "U+D95C", "U+D95D", "U+D95E", "U+D95F",
     "U+D960", "U+D961", "U+D962", "U+D963", "U+D964", "U+D965", "U+D966", "U+D967",
     "U+D968", "U+D969", "U+D96A", "U+D96B", "U+D96C", "U+D96D", "U+D96E", "U+D96F",
     "U+D970", "U+D971", "U+D972", "U+D973", "U+D974", "U+D975", "U+D976", "U+D977",
     "U+D978", "U+D979", "U+D97A", "U+D97B", "U+D97C", "U+D97D", "U+D97E", "U+D97F",
     "U+D980", "U+D981", "U+D982", "U+D983", "U+D984", "U+D985", "U+D986", "U+D987",
     "U+D988", "U+D989", "U+D98A", "U+D98B", "U+D98C", "U+D98D", "U+D98E", "U+D98F",
     "U+D990", "U+D991", "U+D992", "U+D993", "U+D994", "U+D995", "U+D996", "U+D997",
     "U+D998", "U+D999", "U+D99A", "U+D99B", "U+D99C", "U+D99D", "U+D99E", "U+D99F",
     "U+D9A0", "U+D9A1", "U+D9A2", "U+D9A3", "U+D9A4", "U+D9A5", "U+D9A6", "U+D9A7",
     "U+D9A8", "U+D9A9", "U+D9AA", "U+D9AB", "U+D9AC", "U+D9AD", "U+D9AE", "U+D9AF",
     "U+D9B0", "U+D9B1", "U+D9B2", "U+D9B3", "U+D9B4", "U+D9B5", "U+D9B6", "U+D9B7",
     "U+D9B8", "U+D9B9", "U+D9BA", "U+D9BB", "U+D9BC", "U+D9BD", "U+D9BE", "U+D9BF",
     "U+D9C0", "U+D9C1", "U+D9C2", "U+D9C3", "U+D9C4", "U+D9C5", "U+D9C6", "U+D9C7",
     "U+D9C8", "U+D9C9", "U+D9CA", "U+D9CB", "U+D9CC", "U+D9CD", "U+D9CE", "U+D9CF",
     "U+D9D0", "U+D9D1", "U+D9D2", "U+D9D3", "U+D9D4", "U+D9D5", "U+D9D6", "U+D9D7",
     "U+D9D8", "U+D9D9", "U+D9DA", "U+D9DB", "U+D9DC", "U+D9DD", "U+D9DE", "U+D9DF",
     "U+D9E0", "U+D9E1", "U+D9E2", "U+D9E3", "U+D9E4", "U+D9E5", "U+D9E6", "U+D9E7",
     "U+D9E8", "U+D9E9", "U+D9EA", "U+D9EB", "U+D9EC", "U+D9ED", "U+D9EE", "U+D9EF",
     "U+D9F0", "U+D9F1", "U+D9F2", "U+D9F3", "U+D9F4", "U+D9F5", "U+D9F6", "U+D9F7",
     "U+D9F8", "U+D9F9", "U+D9FA", "U+D9FB", "U+D9FC", "U+D9FD", "U+D9FE", "U+D9FF",
     "U+DA00", "U+DA01", "U+DA02", "U+DA03", "U+DA04", "U+DA05", "U+DA06", "U+DA07",
     "U+DA08", "U+DA09", "U+DA0A", "U+DA0B", "U+DA0C", "U+DA0D", "U+DA0E", "U+DA0F",
     "U+DA10", "U+DA11", "U+DA12", "U+DA13", "U+DA14", "U+DA15", "U+DA16", "U+DA17",
     "U+DA18", "U+DA19", "U+DA1A", "U+DA1B", "U+DA1C", "U+DA1D", "U+DA1E", "U+DA1F",
     "U+DA20", "U+DA21", "U+DA22", "U+DA23", "U+DA24", "U+DA25", "U+DA26", "U+DA27",
     "U+DA28", "U+DA29", "U+DA2A", "U+DA2B", "U+DA2C", "U+DA2D", "U+DA2E", "U+DA2F",
     "U+DA30", "U+DA31", "U+DA32", "U+DA33", "U+DA34", "U+DA35", "U+DA36", "U+DA37",
     "U+DA38", "U+DA39", "U+DA3A", "U+DA3B", "U+DA3C", "U+DA3D", "U+DA3E", "U+DA3F",
     "U+DA40", "U+DA41", "U+DA42", "U+DA43", "U+DA44", "U+DA45", "U+DA46", "U+DA47",
     "U+DA48", "U+DA49", "U+DA4A", "U+DA4B", "U+DA4C", "U+DA4D", "U+DA4E", "U+DA4F",
     "U+DA50", "U+DA51", "U+DA52", "U+DA53", "U+DA54", "U+DA55", "U+DA56", "U+DA57",
     "U+DA58", "U+DA59", "U+DA5A", "U+DA5B", "U+DA5C", "U+DA5D", "U+DA5E", "U+DA5F",
     "U+DA60", "U+DA61", "U+DA62", "U+DA63", "U+DA64", "U+DA65", "U+DA66", "U+DA67",
     "U+DA68", "U+DA69", "U+DA6A", "U+DA6B", "U+DA6C", "U+DA6D", "U+DA6E", "U+DA6F",
     "U+DA70", "U+DA71", "U+DA72", "U+DA73", "U+DA74", "U+DA75", "U+DA76", "U+DA77",
     "U+DA78", "U+DA79", "U+DA7A", "U+DA7B", "U+DA7C", "U+DA7D", "U+DA7E", "U+DA7F",
     "U+DA80", "U+DA81", "U+DA82", "U+DA83", "U+DA84", "U+DA85", "U+DA86", "U+DA87",
     "U+DA88", "U+DA89", "U+DA8A", "U+DA8B", "U+DA8C", "U+DA8D", "U+DA8E", "U+DA8F",
     "U+DA90", "U+DA91", "U+DA92", "U+DA93", "U+DA94", "U+DA95", "U+DA96", "U+DA97",
     "U+DA98", "U+DA99", "U+DA9A", "U+DA9B", "U+DA9C", "U+DA9D", "U+DA9E", "U+DA9F",
     "U+DAA0", "U+DAA1", "U+DAA2", "U+DAA3", "U+DAA4", "U+DAA5", "U+DAA6", "U+DAA7",
     "U+DAA8", "U+DAA9", "U+DAAA", "U+DAAB", "U+DAAC", "U+DAAD", "U+DAAE", "U+DAAF",
     "U+DAB0", "U+DAB1", "U+DAB2", "U+DAB3", "U+DAB4", "U+DAB5", "U+DAB6", "U+DAB7",
     "U+DAB8", "U+DAB9", "U+DABA", "U+DABB", "U+DABC", "U+DABD", "U+DABE", "U+DABF",
     "U+DAC0", "U+DAC1", "U+DAC2", "U+DAC3", "U+DAC4", "U+DAC5", "U+DAC6", "U+DAC7",
     "U+DAC8", "U+DAC9", "U+DACA", "U+DACB", "U+DACC", "U+DACD", "U+DACE", "U+DACF",
     "U+DAD0", "U+DAD1", "U+DAD2", "U+DAD3", "U+DAD4", "U+DAD5", "U+DAD6", "U+DAD7",
     "U+DAD8", "U+DAD9", "U+DADA", "U+DADB", "U+DADC", "U+DADD", "U+DADE", "U+DADF",
     "U+DAE0", "U+DAE1", "U+DAE2", "U+DAE3", "U+DAE4", "U+DAE5", "U+DAE6", "U+DAE7",
     "U+DAE8", "U+DAE9", "U+DAEA", "U+DAEB", "U+DAEC", "U+DAED", "U+DAEE", "U+DAEF",
     "U+DAF0", "U+DAF1", "U+DAF2", "U+DAF3", "U+DAF4", "U+DAF5", "U+DAF6", "U+DAF7",
     "U+DAF8", "U+DAF9", "U+DAFA", "U+DAFB", "U+DAFC", "U+DAFD", "U+DAFE", "U+DAFF",
     "U+DB00", "U+DB01", "U+DB02", "U+DB03", "U+DB04", "U+DB05", "U+DB06", "U+DB07",
     "U+DB08", "U+DB09", "U+DB0A", "U+DB0B", "U+DB0C", "U+DB0D", "U+DB0E", "U+DB0F",
     "U+DB10", "U+DB11", "U+DB12", "U+DB13", "U+DB14", "U+DB15", "U+DB16", "U+DB17",
     "U+DB18", "U+DB19", "U+DB1A", "U+DB1B", "U+DB1C", "U+DB1D", "U+DB1E", "U+DB1F",
     "U+DB20", "U+DB21", "U+DB22", "U+DB23", "U+DB24", "U+DB25", "U+DB26", "U+DB27",
     "U+DB28", "U+DB29", "U+DB2A", "U+DB2B", "U+DB2C", "U+DB2D", "U+DB2E", "U+DB2F",
     "U+DB30", "U+DB31", "U+DB32", "U+DB33", "U+DB34", "U+DB35", "U+DB36", "U+DB37",
     "U+DB38", "U+DB39", "U+DB3A", "U+DB3B", "U+DB3C", "U+DB3D", "U+DB3E", "U+DB3F",
     "U+DB40", "U+DB41", "U+DB42", "U+DB43", "U+DB44", "U+DB45", "U+DB46", "U+DB47",
     "U+DB48", "U+DB49", "U+DB4A", "U+DB4B", "U+DB4C", "U+DB4D", "U+DB4E", "U+DB4F",
     "U+DB50", "U+DB51", "U+DB52", "U+DB53", "U+DB54", "U+DB55", "U+DB56", "U+DB57",
     "U+DB58", "U+DB59", "U+DB5A", "U+DB5B", "U+DB5C", "U+DB5D", "U+DB5E", "U+DB5F",
     "U+DB60", "U+DB61", "U+DB62", "U+DB63", "U+DB64", "U+DB65", "U+DB66", "U+DB67",
     "U+DB68", "U+DB69", "U+DB6A", "U+DB6B", "U+DB6C", "U+DB6D", "U+DB6E", "U+DB6F",
     "U+DB70", "U+DB71", "U+DB72", "U+DB73", "U+DB74", "U+DB75", "U+DB76", "U+DB77",
     "U+DB78", "U+DB79", "U+DB7A", "U+DB7B", "U+DB7C", "U+DB7D", "U+DB7E", "U+DB7F",
     "U+DB80", "U+DB81", "U+DB82", "U+DB83", "U+DB84", "U+DB85", "U+DB86", "U+DB87",
     "U+DB88", "U+DB89", "U+DB8A", "U+DB8B", "U+DB8C", "U+DB8D", "U+DB8E", "U+DB8F",
     "U+DB90", "U+DB91", "U+DB92", "U+DB93", "U+DB94", "U+DB95", "U+DB96", "U+DB97",
     "U+DB98", "U+DB99", "U+DB9A", "U+DB9B", "U+DB9C", "U+DB9D", "U+DB9E", "U+DB9F",
     "U+DBA0", "U+DBA1", "U+DBA2", "U+DBA3", "U+DBA4", "U+DBA5", "U+DBA6", "U+DBA7",
     "U+DBA8", "U+DBA9", "U+DBAA", "U+DBAB", "U+DBAC", "U+DBAD", "U+DBAE", "U+DBAF",
     "U+DBB0", "U+DBB1", "U+DBB2", "U+DBB3", "U+DBB4", "U+DBB5", "U+DBB6", "U+DBB7",
     "U+DBB8", "U+DBB9", "U+DBBA", "U+DBBB", "U+DBBC", "U+DBBD", "U+DBBE", "U+DBBF",
     "U+DBC0", "U+DBC1", "U+DBC2", "U+DBC3", "U+DBC4", "U+DBC5", "U+DBC6", "U+DBC7",
     "U+DBC8", "U+DBC9", "U+DBCA", "U+DBCB", "U+DBCC", "U+DBCD", "U+DBCE", "U+DBCF",
     "U+DBD0", "U+DBD1", "U+DBD2", "U+DBD3", "U+DBD4", "U+DBD5", "U+DBD6", "U+DBD7",
     "U+DBD8", "U+DBD9", "U+DBDA", "U+DBDB", "U+DBDC", "U+DBDD", "U+DBDE", "U+DBDF",
     "U+DBE0", "U+DBE1", "U+DBE2", "U+DBE3", "U+DBE4", "U+DBE5", "U+DBE6", "U+DBE7",
     "U+DBE8", "U+DBE9", "U+DBEA", "U+DBEB", "U+DBEC", "U+DBED", "U+DBEE", "U+DBEF",
     "U+DBF0", "U+DBF1", "U+DBF2", "U+DBF3", "U+DBF4", "U+DBF5", "U+DBF6", "U+DBF7",
     "U+DBF8", "U+DBF9", "U+DBFA", "U+DBFB", "U+DBFC", "U+DBFD", "U+DBFE", "U+DBFF",
     "U+DC00", "U+DC01", "U+DC02", "U+DC03", "U+DC04", "U+DC05", "U+DC06", "U+DC07",
     "U+DC08", "U+DC09", "U+DC0A", "U+DC0B", "U+DC0C", "U+DC0D", "U+DC0E", "U+DC0F",
     "U+DC10", "U+DC11", "U+DC12", "U+DC13", "U+DC14", "U+DC15", "U+DC16", "U+DC17",
     "U+DC18", "U+DC19", "U+DC1A", "U+DC1B", "U+DC1C", "U+DC1D", "U+DC1E", "U+DC1F",
     "U+DC20", "U+DC21", "U+DC22", "U+DC23", "U+DC24", "U+DC25", "U+DC26", "U+DC27",
     "U+DC28", "U+DC29", "U+DC2A", "U+DC2B", "U+DC2C", "U+DC2D", "U+DC2E", "U+DC2F",
     "U+DC30", "U+DC31", "U+DC32", "U+DC33", "U+DC34", "U+DC35", "U+DC36", "U+DC37",
     "U+DC38", "U+DC39", "U+DC3A", "U+DC3B", "U+DC3C", "U+DC3D", "U+DC3E", "U+DC3F",
     "U+DC40", "U+DC41", "U+DC42", "U+DC43", "U+DC44", "U+DC45", "U+DC46", "U+DC47",
     "U+DC48", "U+DC49", "U+DC4A", "U+DC4B", "U+DC4C", "U+DC4D", "U+DC4E", "U+DC4F",
     "U+DC50", "U+DC51", "U+DC52", "U+DC53", "U+DC54", "U+DC55", "U+DC56", "U+DC57",
     "U+DC58", "U+DC59", "U+DC5A", "U+DC5B", "U+DC5C", "U+DC5D", "U+DC5E", "U+DC5F",
     "U+DC60", "U+DC61", "U+DC62", "U+DC63", "U+DC64", "U+DC65", "U+DC66", "U+DC67",
     "U+DC68", "U+DC69", "U+DC6A", "U+DC6B", "U+DC6C", "U+DC6D", "U+DC6E", "U+DC6F",
     "U+DC70", "U+DC71", "U+DC72", "U+DC73", "U+DC74", "U+DC75", "U+DC76", "U+DC77",
     "U+DC78", "U+DC79", "U+DC7A", "U+DC7B", "U+DC7C", "U+DC7D", "U+DC7E", "U+DC7F",
     "U+DC80", "U+DC81", "U+DC82", "U+DC83", "U+DC84", "U+DC85", "U+DC86", "U+DC87",
     "U+DC88", "U+DC89", "U+DC8A", "U+DC8B", "U+DC8C", "U+DC8D", "U+DC8E", "U+DC8F",
     "U+DC90", "U+DC91", "U+DC92", "U+DC93", "U+DC94", "U+DC95", "U+DC96", "U+DC97",
     "U+DC98", "U+DC99", "U+DC9A", "U+DC9B", "U+DC9C", "U+DC9D", "U+DC9E", "U+DC9F",
     "U+DCA0", "U+DCA1", "U+DCA2", "U+DCA3", "U+DCA4", "U+DCA5", "U+DCA6", "U+DCA7",
     "U+DCA8", "U+DCA9", "U+DCAA", "U+DCAB", "U+DCAC", "U+DCAD", "U+DCAE", "U+DCAF",
     "U+DCB0", "U+DCB1", "U+DCB2", "U+DCB3", "U+DCB4", "U+DCB5", "U+DCB6", "U+DCB7",
     "U+DCB8", "U+DCB9", "U+DCBA", "U+DCBB", "U+DCBC", "U+DCBD", "U+DCBE", "U+DCBF",
     "U+DCC0", "U+DCC1", "U+DCC2", "U+DCC3", "U+DCC4", "U+DCC5", "U+DCC6", "U+DCC7",
     "U+DCC8", "U+DCC9", "U+DCCA", "U+DCCB", "U+DCCC", "U+DCCD", "U+DCCE", "U+DCCF",
     "U+DCD0", "U+DCD1", "U+DCD2", "U+DCD3", "U+DCD4", "U+DCD5", "U+DCD6", "U+DCD7",
     "U+DCD8", "U+DCD9", "U+DCDA", "U+DCDB", "U+DCDC", "U+DCDD", "U+DCDE", "U+DCDF",
     "U+DCE0", "U+DCE1", "U+DCE2", "U+DCE3", "U+DCE4", "U+DCE5", "U+DCE6", "U+DCE7",
     "U+DCE8", "U+DCE9", "U+DCEA", "U+DCEB", "U+DCEC", "U+DCED", "U+DCEE", "U+DCEF",
     "U+DCF0", "U+DCF1", "U+DCF2", "U+DCF3", "U+DCF4", "U+DCF5", "U+DCF6", "U+DCF7",
     "U+DCF8", "U+DCF9", "U+DCFA", "U+DCFB", "U+DCFC", "U+DCFD", "U+DCFE", "U+DCFF",
     "U+DD00", "U+DD01", "U+DD02", "U+DD03", "U+DD04", "U+DD05", "U+DD06", "U+DD07",
     "U+DD08", "U+DD09", "U+DD0A", "U+DD0B", "U+DD0C", "U+DD0D", "U+DD0E", "U+DD0F",
     "U+DD10", "U+DD11", "U+DD12", "U+DD13", "U+DD14", "U+DD15", "U+DD16", "U+DD17",
     "U+DD18", "U+DD19", "U+DD1A", "U+DD1B", "U+DD1C", "U+DD1D", "U+DD1E", "U+DD1F",
     "U+DD20", "U+DD21", "U+DD22", "U+DD23", "U+DD24", "U+DD25", "U+DD26", "U+DD27",
     "U+DD28", "U+DD29", "U+DD2A", "U+DD2B", "U+DD2C", "U+DD2D", "U+DD2E", "U+DD2F",
     "U+DD30", "U+DD31", "U+DD32", "U+DD33", "U+DD34", "U+DD35", "U+DD36", "U+DD37",
     "U+DD38", "U+DD39", "U+DD3A", "U+DD3B", "U+DD3C", "U+DD3D", "U+DD3E", "U+DD3F",
     "U+DD40", "U+DD41", "U+DD42", "U+DD43", "U+DD44", "U+DD45", "U+DD46", "U+DD47",
     "U+DD48", "U+DD49", "U+DD4A", "U+DD4B", "U+DD4C", "U+DD4D", "U+DD4E", "U+DD4F",
     "U+DD50", "U+DD51", "U+DD52", "U+DD53", "U+DD54", "U+DD55", "U+DD56", "U+DD57",
     "U+DD58", "U+DD59", "U+DD5A", "U+DD5B", "U+DD5C", "U+DD5D", "U+DD5E", "U+DD5F",
     "U+DD60", "U+DD61", "U+DD62", "U+DD63", "U+DD64", "U+DD65", "U+DD66", "U+DD67",
     "U+DD68", "U+DD69", "U+DD6A", "U+DD6B", "U+DD6C", "U+DD6D", "U+DD6E", "U+DD6F",
     "U+DD70", "U+DD71", "U+DD72", "U+DD73", "U+DD74", "U+DD75", "U+DD76", "U+DD77",
     "U+DD78", "U+DD79", "U+DD7A", "U+DD7B", "U+DD7C", "U+DD7D", "U+DD7E", "U+DD7F",
     "U+DD80", "U+DD81", "U+DD82", "U+DD83", "U+DD84", "U+DD85", "U+DD86", "U+DD87",
     "U+DD88", "U+DD89", "U+DD8A", "U+DD8B", "U+DD8C", "U+DD8D", "U+DD8E", "U+DD8F",
     "U+DD90", "U+DD91", "U+DD92", "U+DD93", "U+DD94", "U+DD95", "U+DD96", "U+DD97",
     "U+DD98", "U+DD99", "U+DD9A", "U+DD9B", "U+DD9C", "U+DD9D", "U+DD9E", "U+DD9F",
     "U+DDA0", "U+DDA1", "U+DDA2", "U+DDA3", "U+DDA4", "U+DDA5", "U+DDA6", "U+DDA7",
     "U+DDA8", "U+DDA9", "U+DDAA", "U+DDAB", "U+DDAC", "U+DDAD", "U+DDAE", "U+DDAF",
     "U+DDB0", "U+DDB1", "U+DDB2", "U+DDB3", "U+DDB4", "U+DDB5", "U+DDB6", "U+DDB7",
     "U+DDB8", "U+DDB9", "U+DDBA", "U+DDBB", "U+DDBC", "U+DDBD", "U+DDBE", "U+DDBF",
     "U+DDC0", "U+DDC1", "U+DDC2", "U+DDC3", "U+DDC4", "U+DDC5", "U+DDC6", "U+DDC7",
     "U+DDC8", "U+DDC9", "U+DDCA", "U+DDCB", "U+DDCC", "U+DDCD", "U+DDCE", "U+DDCF",
     "U+DDD0", "U+DDD1", "U+DDD2", "U+DDD3", "U+DDD4", "U+DDD5", "U+DDD6", "U+DDD7",
     "U+DDD8", "U+DDD9", "U+DDDA", "U+DDDB", "U+DDDC", "U+DDDD", "U+DDDE", "U+DDDF",
     "U+DDE0", "U+DDE1", "U+DDE2", "U+DDE3", "U+DDE4", "U+DDE5", "U+DDE6", "U+DDE7",
     "U+DDE8", "U+DDE9", "U+DDEA", "U+DDEB", "U+DDEC", "U+DDED", "U+DDEE", "U+DDEF",
     "U+DDF0", "U+DDF1", "U+DDF2", "U+DDF3", "U+DDF4", "U+DDF5", "U+DDF6", "U+DDF7",
     "U+DDF8", "U+DDF9", "U+DDFA", "U+DDFB", "U+DDFC", "U+DDFD", "U+DDFE", "U+DDFF",
     "U+DE00", "U+DE01", "U+DE02", "U+DE03", "U+DE04", "U+DE05", "U+DE06", "U+DE07",
     "U+DE08", "U+DE09", "U+DE0A", "U+DE0B", "U+DE0C", "U+DE0D", "U+DE0E", "U+DE0F",
     "U+DE10", "U+DE11", "U+DE12", "U+DE13", "U+DE14", "U+DE15", "U+DE16", "U+DE17",
     "U+DE18", "U+DE19", "U+DE1A", "U+DE1B", "U+DE1C", "U+DE1D", "U+DE1E", "U+DE1F",
     "U+DE20", "U+DE21", "U+DE22", "U+DE23", "U+DE24", "U+DE25", "U+DE26", "U+DE27",
     "U+DE28", "U+DE29", "U+DE2A", "U+DE2B", "U+DE2C", "U+DE2D", "U+DE2E", "U+DE2F",
     "U+DE30", "U+DE31", "U+DE32", "U+DE33", "U+DE34", "U+DE35", "U+DE36", "U+DE37",
     "U+DE38", "U+DE39", "U+DE3A", "U+DE3B", "U+DE3C", "U+DE3D", "U+DE3E", "U+DE3F",
     "U+DE40", "U+DE41", "U+DE42", "U+DE43", "U+DE44", "U+DE45", "U+DE46", "U+DE47",
     "U+DE48", "U+DE49", "U+DE4A", "U+DE4B", "U+DE4C", "U+DE4D", "U+DE4E", "U+DE4F",
     "U+DE50", "U+DE51", "U+DE52", "U+DE53", "U+DE54", "U+DE55", "U+DE56", "U+DE57",
     "U+DE58", "U+DE59", "U+DE5A", "U+DE5B", "U+DE5C", "U+DE5D", "U+DE5E", "U+DE5F",
     "U+DE60", "U+DE61", "U+DE62", "U+DE63", "U+DE64", "U+DE65", "U+DE66", "U+DE67",
     "U+DE68", "U+DE69", "U+DE6A", "U+DE6B", "U+DE6C", "U+DE6D", "U+DE6E", "U+DE6F",
     "U+DE70", "U+DE71", "U+DE72", "U+DE73", "U+DE74", "U+DE75", "U+DE76", "U+DE77",
     "U+DE78", "U+DE79", "U+DE7A", "U+DE7B", "U+DE7C", "U+DE7D", "U+DE7E", "U+DE7F",
     "U+DE80", "U+DE81", "U+DE82", "U+DE83", "U+DE84", "U+DE85", "U+DE86", "U+DE87",
     "U+DE88", "U+DE89", "U+DE8A", "U+DE8B", "U+DE8C", "U+DE8D", "U+DE8E", "U+DE8F",
     "U+DE90", "U+DE91", "U+DE92", "U+DE93", "U+DE94", "U+DE95", "U+DE96", "U+DE97",
     "U+DE98", "U+DE99", "U+DE9A", "U+DE9B", "U+DE9C", "U+DE9D", "U+DE9E", "U+DE9F",
     "U+DEA0", "U+DEA1", "U+DEA2", "U+DEA3", "U+DEA4", "U+DEA5", "U+DEA6", "U+DEA7",
     "U+DEA8", "U+DEA9", "U+DEAA", "U+DEAB", "U+DEAC", "U+DEAD", "U+DEAE", "U+DEAF",
     "U+DEB0", "U+DEB1", "U+DEB2", "U+DEB3", "U+DEB4", "U+DEB5", "U+DEB6", "U+DEB7",
     "U+DEB8", "U+DEB9", "U+DEBA", "U+DEBB", "U+DEBC", "U+DEBD", "U+DEBE", "U+DEBF",
     "U+DEC0", "U+DEC1", "U+DEC2", "U+DEC3", "U+DEC4", "U+DEC5", "U+DEC6", "U+DEC7",
     "U+DEC8", "U+DEC9", "U+DECA", "U+DECB", "U+DECC", "U+DECD", "U+DECE", "U+DECF",
     "U+DED0", "U+DED1", "U+DED2", "U+DED3", "U+DED4", "U+DED5", "U+DED6", "U+DED7",
     "U+DED8", "U+DED9", "U+DEDA", "U+DEDB", "U+DEDC", "U+DEDD", "U+DEDE", "U+DEDF",
     "U+DEE0", "U+DEE1", "U+DEE2", "U+DEE3", "U+DEE4", "U+DEE5", "U+DEE6", "U+DEE7",
     "U+DEE8", "U+DEE9", "U+DEEA", "U+DEEB", "U+DEEC", "U+DEED", "U+DEEE", "U+DEEF",
     "U+DEF0", "U+DEF1", "U+DEF2", "U+DEF3", "U+DEF4", "U+DEF5", "U+DEF6", "U+DEF7",
     "U+DEF8", "U+DEF9", "U+DEFA", "U+DEFB", "U+DEFC", "U+DEFD", "U+DEFE", "U+DEFF",
     "U+DF00", "U+DF01", "U+DF02", "U+DF03", "U+DF04", "U+DF05", "U+DF06", "U+DF07",
     "U+DF08", "U+DF09", "U+DF0A", "U+DF0B", "U+DF0C", "U+DF0D", "U+DF0E", "U+DF0F",
     "U+DF10", "U+DF11", "U+DF12", "U+DF13", "U+DF14", "U+DF15", "U+DF16", "U+DF17",
     "U+DF18", "U+DF19", "U+DF1A", "U+DF1B", "U+DF1C", "U+DF1D", "U+DF1E", "U+DF1F",
     "U+DF20", "U+DF21", "U+DF22", "U+DF23", "U+DF24", "U+DF25", "U+DF26", "U+DF27",
     "U+DF28", "U+DF29", "U+DF2A", "U+DF2B", "U+DF2C", "U+DF2D", "U+DF2E", "U+DF2F",
     "U+DF30", "U+DF31", "U+DF32", "U+DF33", "U+DF34", "U+DF35", "U+DF36", "U+DF37",
     "U+DF38", "U+DF39", "U+DF3A", "U+DF3B", "U+DF3C", "U+DF3D", "U+DF3E", "U+DF3F",
     "U+DF40", "U+DF41", "U+DF42", "U+DF43", "U+DF44", "U+DF45", "U+DF46", "U+DF47",
     "U+DF48", "U+DF49", "U+DF4A", "U+DF4B", "U+DF4C", "U+DF4D", "U+DF4E", "U+DF4F",
     "U+DF50", "U+DF51", "U+DF52", "U+DF53", "U+DF54", "U+DF55", "U+DF56", "U+DF57",
     "U+DF58", "U+DF59", "U+DF5A", "U+DF5B", "U+DF5C", "U+DF5D", "U+DF5E", "U+DF5F",
     "U+DF60", "U+DF61", "U+DF62", "U+DF63", "U+DF64", "U+DF65", "U+DF66", "U+DF67",
     "U+DF68", "U+DF69", "U+DF6A", "U+DF6B", "U+DF6C", "U+DF6D", "U+DF6E", "U+DF6F",
     "U+DF70", "U+DF71", "U+DF72", "U+DF73", "U+DF74", "U+DF75", "U+DF76", "U+DF77",
     "U+DF78", "U+DF79", "U+DF7A", "U+DF7B", "U+DF7C", "U+DF7D", "U+DF7E", "U+DF7F",
     "U+DF80", "U+DF81", "U+DF82", "U+DF83", "U+DF84", "U+DF85", "U+DF86", "U+DF87",
     "U+DF88", "U+DF89", "U+DF8A", "U+DF8B", "U+DF8C", "U+DF8D", "U+DF8E", "U+DF8F",
     "U+DF90", "U+DF91", "U+DF92", "U+DF93", "U+DF94", "U+DF95", "U+DF96", "U+DF97",
     "U+DF98", "U+DF99", "U+DF9A", "U+DF9B", "U+DF9C", "U+DF9D", "U+DF9E", "U+DF9F",
     "U+DFA0", "U+DFA1", "U+DFA2", "U+DFA3", "U+DFA4", "U+DFA5", "U+DFA6", "U+DFA7",
     "U+DFA8", "U+DFA9", "U+DFAA", "U+DFAB", "U+DFAC", "U+DFAD", "U+DFAE", "U+DFAF",
     "U+DFB0", "U+DFB1", "U+DFB2", "U+DFB3", "U+DFB4", "U+DFB5", "U+DFB6", "U+DFB7",
     "U+DFB8", "U+DFB9", "U+DFBA", "U+DFBB", "U+DFBC", "U+DFBD", "U+DFBE", "U+DFBF",
     "U+DFC0", "U+DFC1", "U+DFC2", "U+DFC3", "U+DFC4", "U+DFC5", "U+DFC6", "U+DFC7",
     "U+DFC8", "U+DFC9", "U+DFCA", "U+DFCB", "U+DFCC", "U+DFCD", "U+DFCE", "U+DFCF",
     "U+DFD0", "U+DFD1", "U+DFD2", "U+DFD3", "U+DFD4", "U+DFD5", "U+DFD6", "U+DFD7",
     "U+DFD8", "U+DFD9", "U+DFDA", "U+DFDB", "U+DFDC", "U+DFDD", "U+DFDE", "U+DFDF",
     "U+DFE0", "U+DFE1", "U+DFE2", "U+DFE3", "U+DFE4", "U+DFE5", "U+DFE6", "U+DFE7",
     "U+DFE8", "U+DFE9", "U+DFEA", "U+DFEB", "U+DFEC", "U+DFED", "U+DFEE", "U+DFEF",
     "U+DFF0", "U+DFF1", "U+DFF2", "U+DFF3", "U+DFF4", "U+DFF5", "U+DFF6", "U+DFF7",
     "U+DFF8", "U+DFF9", "U+DFFA", "U+DFFB", "U+DFFC", "U+DFFD", "U+DFFE", "U+DFFF"}

\* white space in the text of a document outside its document element, where
\* nothing else may be written and no character reference
XmlSpace == {" ", "\t", NL, "\r"}

\* the characters no XML 1.0 text may hold, written out or as a character
\* reference
NotXmlChar ==
    {"U+0000", "", "", "", "", "", "", "", "", "", "\f", "",
     "", "", "", "", "", "", "", "", "", "", "", "",
     "", "", "", "", "", "U+FFFE", "U+FFFF"}
    \cup Surrogates

\* what the parser leaves when it raises ParseError
ParseError == Element("<ParseError>", "", <<>>, <<>>, <<>>)
\* ... and when the text cannot be encoded for it (xml.etree hands the parser
\* the str as UTF-8)
UnicodeEncodeError == Element("<UnicodeEncodeError>", "", <<>>, <<>>, <<>>)

RECURSIVE first_written(_)
\* the first character written in the character data a text starts with, ""
\* when it starts with none
first_written(toks) ==
    IF toks = <<>> \/ Head(toks).t # "data" THEN ""
    ELSE IF Head(toks).s = <<>> THEN first_written(Tail(toks))
    ELSE Head(toks).s[1]

\* the line ends of character data as the parser reports them: a carriage
\* return written before a newline is dropped, any other becomes a newline;
\* next is the character written after str
newlines(str, next) ==
    LET follows(i) == IF i < Len(str) THEN str[i + 1] ELSE next
        kept == SelectSeq([i \in 1..Len(str) |-> i],
                          LAMBDA i : ~(str[i] = "\r" /\ follows(i) = NL))
    IN [k \in 1..Len(kept) |-> IF str[kept[k]] = "\r" THEN NL ELSE str[kept[k]]]

RECURSIVE strip_bom(_)
\* the text without the byte order mark it starts with
strip_bom(toks) ==
    IF toks = <<>> \/ Head(toks).t # "data" THEN toks
    ELSE IF Head(toks).s = <<>> THEN strip_bom(Tail(toks))
    ELSE IF Head(toks).s[1] = BOM THEN <<Data(Tail(Head(toks).s))>> \o Tail(toks)
    ELSE toks

RECURSIVE written_data(_)
\* the character data a text starts with, as it is written, up to the first
\* markup or reference; it may not hold "]]>", the end mark of a CDATA section
written_data(toks) ==
    IF toks = <<>> \/ Head(toks).t # "data" THEN <<>>
    ELSE Head(toks).s \o written_data(Tail(toks))

\* character data inside the open element: its text before its first child,
\* the tail of its last child after
add_data(stack, str) ==
    LET n == Len(stack)
        k == Len(stack[n].children)
    IN IF k = 0 THEN [stack EXCEPT ![n].text = @ \o str]
       ELSE [stack EXCEPT ![n].children[k].tail = @ \o str]

RECURSIVE parse(_, _, _)
\* stack: the open elements; r: the closed document element, or None
parse(toks, stack, r) ==
    IF toks = <<>>
    THEN IF stack # <<>> \/ r = None THEN ParseError ELSE r
    ELSE LET tk == Head(toks)
             n  == Len(stack)
         IN CASE tk.t = "stray" -> ParseError
              [] tk.t = "data" ->
                    IF \E i \in 1..Len(tk.s) : tk.s[i] \in NotXmlChar
                    THEN ParseError
                    ELSE IF contains(written_data(toks), <<"]", "]", ">">>)
                    THEN ParseError
                    ELSE IF n = 0
                    THEN IF \A i \in 1..Len(tk.s) : tk.s[i] \in XmlSpace
                         THEN parse(Tail(toks), stack, r)
                         ELSE ParseError
                    ELSE parse(Tail(toks),
                               add_data(stack, newlines(tk.s, first_written(Tail(toks)))), r)
              [] tk.t = "ref" ->
                    IF n = 0 \/ tk.s[1] \in NotXmlChar THEN ParseError
                    ELSE parse(Tail(toks), add_data(stack, tk.s), r)
              [] tk.t = "start" ->
                    IF n = 0 /\ r # None THEN ParseError
                    ELSE parse(Tail(toks),
                               Append(stack, Element(tk.tag, tk.kind, <<>>, <<>>, <<>>)), r)
              [] tk.t = "end" ->
                    IF n = 0 \/ stack[n].tag # tk.tag THEN ParseError
                    ELSE IF n = 1 THEN parse(Tail(toks), <<>>, stack[1])
                    ELSE parse(Tail(toks),
                               [SubSeq(stack, 1, n - 1) EXCEPT
                                    ![n - 1].children = Append(@, stack[n])], r)

\* whether a surrogate is written somewhere in the text
has_surrogate(toks) ==
    \E i \in 1..Len(toks) :
        toks[i].t = "data" /\ \E j \in 1..Len(toks[i].s) : toks[i].s[j] \in Surrogates

\* a parser that swallows the parse error and goes on with an empty document
fromstring_swallow(toks) ==
    IF has_surrogate(toks) THEN UnicodeEncodeError
    ELSE IF parse(strip_bom(toks), <<>>, None) = ParseError THEN Node("doxygen", "", <<>>)
    ELSE parse(strip_bom(toks), <<>>, None)

\* ET.fromstring: the whole text is encoded first, then parsed
fromstring(toks) ==
    IF has_surrogate(toks) THEN UnicodeEncodeError
    ELSE parse(strip_bom(toks), <<>>, None)

RECURSIVE chardata(_)
\* a text written as character data, as references its carriage returns and
\* the ">" of each "]]>"
chardata(str) ==
    LET cr == SelectSeq([i \in 1..Len(str) |-> i],
                        LAMBDA i : \/ str[i] = "\r"
                                   \/ i > 2 /\ SubSeq(str, i - 2, i) = <<"]", "]", ">">>)
    IN IF str = <<>> THEN <<>>
       ELSE IF cr = <<>> THEN <<Data(str)>>
       ELSE (IF cr[1] > 1 THEN <<Data(SubSeq(str, 1, cr[1] - 1))>> ELSE <<>>)
            \o <<CharRef(str[cr[1]])>>
            \o chardata(SubSeq(str, cr[1] + 1, Len(str)))

RECURSIVE tostring(_)
RECURSIVE tostring_children(_)
\* the XML text of an element (what Doxygen wrote)
tostring(e) ==
    <<StartTag(e.tag, e.kind)>>
    \o chardata(e.text)
    \o tostring_children(e.children)
    \o <<EndTag(e.tag)>>
tostring_children(cs) ==
    IF cs = <<>> THEN <<>>
    ELSE tostring([Head(cs) EXCEPT !.tail = <<>>])
         \o chardata(Head(cs).tail)
         \o tostring_children(Tail(cs))

---------------------------------------------------------------------------
(* convert as a whole (convert.py 30-169).                                 *)

RECURSIVE compounds_parts(_)
compounds_parts(comps) ==
    IF comps = <<>> THEN <<>>
    ELSE compound_blocks(Head(comps)) \o compounds_parts(Tail(comps))

RECURSIVE members_parts(_, _)
members_parts(members, md) ==
    IF members = <<>> THEN md
    ELSE members_parts(Tail(members), member_blocks(Head(members), md))

\* the assembly without the strip
assemble_no_strip(md) == join(<<NL>>, md) \o <<NL>>

\* line 169
assemble(md) == strip(join(<<NL>>, md)) \o <<NL>>

\* the outcome of convert(doxygen_text): the exception raised or the Markdown
convert(toks) ==
    LET r == fromstring(toks)
    IN IF r = UnicodeEncodeError THEN [raised |-> "UnicodeEncodeError", md |-> <<>>]
       ELSE IF r = ParseError THEN [raised |-> "ValueError", md |-> <<>>]
       ELSE [raised |-> "",
             md |-> assemble(members_parts(findall_deep(r, "memberdef"),
                               compounds_parts(findall_deep(r, "compounddef"))))]

---------------------------------------------------------------------------
(* The inputs of the model.                                                *)

\* all sequences over a set, up to a length
SeqUpTo(S, n) == UNION {[1..k -> S] : k \in 0..n}

\* an optional child: None stands for "not there"
Opt(e) == IF e = None THEN <<>> ELSE <<e>>

\* short XML texts, well-formed or not
ParseTokens ==
    { StartTag("compounddef", "class"), EndTag("compounddef"),
      StartTag("memberdef", ""), EndTag("memberdef"),
      Data(<<"x">>), Data(<<" ">>), Stray }
TokenTexts == SeqUpTo(ParseTokens, MaxTokens)

\* the children of a description node
\* the last with a no-break space and a carriage return around it
ParaTexts == { <<>>, <<" ">>, <<"p">>, <<" ", "p", NL>>, <<" ", "p", "\r">> }
TextChildren ==
    { Element("para", "", t, <<>>, tl) : t \in ParaTexts, tl \in {<<>>, <<"t">>} }
    \cup { Element("para", "", <<"a">>, <<Element("ref", "", <<"c">>, <<>>, <<"d">>)>>, <<>>),
           Leaf("bold", <<"b">>) }
RawTexts == { <<>>, <<" ">>, <<"r">>, <<NL, "r", " ">> }

\* description nodes, for _text_from_elem
TextNodes ==
    { Element("briefdescription", "", t, cs, <<>>) :
        t \in RawTexts, cs \in SeqUpTo(TextChildren, MaxChildren) }

\* inputs of _anchor
AnchorTexts ==
    SeqUpTo({"a", "T", "1", " ", "-", "é"}, MaxTextLen)
    \cup { <<"Ä", "b">>, <<"A", "Σ">>, <<"Σ", "A">>, <<"U+212A", "1">>, <<"U+0130", "x">>,
           <<"i", "n", "t", " ", "a">>,
           <<"a", "d", "d", " ", "(", "i", "n", "t", " ", "a", ",", " ", "i", "n", "t", " ", "b", ")">> }

---------------------------------------------------------------------------
(* Doxygen documents.                                                      *)

Para(txt) == Leaf("para", txt)
Desc(tag, txt, children) == Element(tag, "", txt, children, <<>>)

\* a description node: absent, empty, raw text only, one paragraph, raw text
\* beside a blank paragraph, two paragraphs, markup without a paragraph
DescPool(tag) ==
    { None,
      Desc(tag, <<>>, <<>>),
      Desc(tag, <<"r">>, <<>>),
      Desc(tag, <<>>, <<Para(<<"p">>)>>),
      Desc(tag, <<"r">>, <<Para(<<" ">>)>>),
      Desc(tag, <<>>, <<Para(<<" ", "p">>), Para(<<"q">>)>>),
      Desc(tag, <<>>, <<Leaf("bold", <<"b">>)>>) }

\* the brief description of an enumvalue or a param
ShortBriefs ==
    { None,
      Desc("briefdescription", <<"r">>, <<>>),
      Desc("briefdescription", <<>>, <<Para(<<"p">>)>>) }

EnumValuePool ==
    { Node("enumvalue", "", Opt(n[1]) \o Opt(n[2]) \o Opt(b)) :
        n \in { <<Leaf("name", <<"R">>), None>>,
                <<None, Leaf("id", <<"i">>)>>,
                <<None, None>> },
        b \in ShortBriefs }

EnumPool ==
    { Node("enum", "", Opt(n[1]) \o Opt(n[2]) \o Opt(b) \o vs) :
        n \in { <<Leaf("name", <<"E">>), None>>,
                <<None, Leaf("definition", <<"D">>)>>,
                <<None, None>> },
        b \in { None, Desc("briefdescription", <<>>, <<Para(<<"e">>)>>) },
        vs \in SeqUpTo(EnumValuePool, MaxValues) }

SimpleEnum ==
    Node("enum", "", <<Leaf("name", <<"E">>),
                       Node("enumvalue", "", <<Leaf("name", <<"R">>)>>)>>)


\* compounds that vary in kind, name and descriptions
HeadCompounds ==
    { Node("compounddef", k, Opt(n) \o Opt(b) \o Opt(d) \o e) :
        k \in {"class", "struct", "namespace", "file", ""},
        n \in { None, Leaf("compoundname", <<>>), Leaf("compoundname", <<"X">>) },
        b \in DescPool("briefdescription"), d \in DescPool("detaileddescription"),
        e \in { <<>>, <<Node("sectiondef", "", <<SimpleEnum>>)>> } }

\* compounds that vary in their enumeration
EnumCompounds ==
    { Node("compounddef", k, <<Leaf("compoundname", <<"X">>)>> \o e) :
        k \in {"class", "file"},
        e \in UNION { { <<en>>, <<Node("sectiondef", "", <<en>>)>> } : en \in EnumPool } }

\* compounds to put in a row: a class, a file with an enum, a namespace that
\* holds a class with an enum, a nameless struct
SmallCompounds ==
    { Node("compounddef", "class",
           <<Leaf("compoundname", <<"X">>),
             Desc("briefdescription", <<>>, <<Para(<<"p">>)>>)>>),
      Node("compounddef", "file", <<Leaf("compoundname", <<"u">>), SimpleEnum>>),
      Node("compounddef", "namespace",
           <<Leaf("compoundname", <<"N">>),
             Node("compounddef", "class", <<Leaf("compoundname", <<"Y">>), SimpleEnum>>)>>),
      Node("compounddef", "struct", <<>>) }

\* params that vary in every field
RichParams ==
    { Node("param", "", Opt(dn) \o Opt(df) \o Opt(ty) \o Opt(b)) :
        dn \in { None, Leaf("declname", <<>>), Leaf("declname", <<"a">>),
                 Leaf("declname", <<"*">>) },
        df \in { None, Leaf("defname", <<"B">>) },
        ty \in { None, Leaf("type", <<" ", "T", " ">>), Leaf("type", <<"*">>) },
        b \in ShortBriefs \cup { Desc("briefdescription", <<>>, <<Leaf("bold", <<"b">>)>>) } }

\* params to put in a row
SmallParams ==
    { Node("param", "", <<Leaf("type", <<"T">>), Leaf("declname", <<"a">>),
                          Desc("briefdescription", <<>>, <<Para(<<"p">>)>>)>>),
      Node("param", "", <<Leaf("type", <<"*">>), Leaf("declname", <<"b">>)>>),
      Node("param", "", <<>>) }


\* members that vary in their parameters
ParamMembers ==
    { Node("memberdef", "function", Opt(n) \o Opt(a) \o ps) :
        n \in { None, Leaf("name", <<"f">>) },
        a \in { None, Leaf("argsstring", <<"(", "T", " ", "a", ")">>) },
        ps \in { <<p>> : p \in RichParams } \cup SeqUpTo(SmallParams, MaxParams) }

\* the text of a code listing
ListingTexts == SeqUpTo({" ", NL, "c"}, MaxTextLen)

\* members that vary in a code listing of their detailed description
ListingMembers ==
    { Node("memberdef", "function",
           <<Leaf("name", <<"f">>),
             Desc("detaileddescription", <<>>, pre \o <<l>>)>>) :
        pre \in { <<>>, <<Para(<<"p">>)>> },
        l \in { Leaf("programlisting", c) : c \in ListingTexts }
              \cup { Node("programlisting", "", <<Leaf("codeline", c)>>) :
                       c \in ListingTexts } }

ReturnSects ==
    { <<>>,
      <<Node("simplesect", "return", <<Para(<<"v">>)>>)>>,
      <<Node("simplesect", "note", <<Para(<<"n">>)>>)>> }

TemplateLists ==
    { None,
      Node("templateparamlist", "", <<>>),
      Node("templateparamlist", "", <<Node("param", "", <<Leaf("type", <<"T">>)>>)>>),
      Node("templateparamlist", "",
           <<Node("param", "", <<Leaf("type", <<"T">>)>>), Leaf("param", <<" ", "U">>)>>) }

\* members that vary in return type, return section, parameters and template
SignatureMembers ==
    { Node("memberdef", "function",
           <<Leaf("name", <<"f">>)>> \o Opt(ty) \o Opt(tp)
           \o <<Desc("detaileddescription", <<>>, rs)>> \o ps) :
        ty \in { None, Leaf("type", <<" ", "T">>) },
        tp \in TemplateLists,
        rs \in ReturnSects,
        ps \in SeqUpTo(SmallParams, MaxParams) }

\* members to put in a row
SmallMembers ==
    { Node("memberdef", "function", <<Leaf("name", <<"f">>), Leaf("type", <<"T">>)>>),
      Node("memberdef", "function",
           <<Leaf("name", <<"g">>), Leaf("type", <<"T">>),
             Desc("detaileddescription", <<>>,
                  <<Node("simplesect", "return", <<Para(<<"v">>)>>)>>)>>),
      Node("memberdef", "function",
           <<Leaf("name", <<"h">>),
             Desc("briefdescription", <<>>, <<Para(<<"p">>)>>),
             Node("param", "", <<Leaf("type", <<"T">>), Leaf("declname", <<"a">>)>>)>>),
      Node("memberdef", "variable", <<>>) }

\* a document of compounds
CompoundDoc(cs) == Node("doxygen", "", cs)

\* a document of members, in the section of a file compound
MemberDoc(ms) ==
    Node("doxygen", "",
         <<Node("compounddef", "file",
                <<Leaf("compoundname", <<"u">>), Node("sectiondef", "", ms)>>)>>)

\* a class with its members
ClassDoc(ms) ==
    Node("doxygen", "",
         <<Node("compounddef", "class",
                <<Leaf("compoundname", <<"X">>),
                  Desc("briefdescription", <<>>, <<Para(<<"p">>)>>),
                  Node("sectiondef", "", <<SimpleEnum>> \o ms)>>)>>)

Docs ==
    { CompoundDoc(<<c>>) : c \in HeadCompounds \cup EnumCompounds }
    \cup { CompoundDoc(cs) : cs \in SeqUpTo(SmallCompounds, MaxCompounds) }
    \cup { MemberDoc(<<m>>) : m \in ParamMembers \cup ListingMembers \cup SignatureMembers }
    \cup { MemberDoc(ms) : ms \in SeqUpTo(SmallMembers, MaxMembers) }
    \cup { ClassDoc(ms) : ms \in SeqUpTo(SmallMembers, 1) }

\* a document of one compound of a kind and a name
NamedText(k, name) ==
    tostring(CompoundDoc(<<Node("compounddef", k, <<Leaf("compoundname", name)>>)>>))

\* the XML texts convert is called on; the last ones hold a form feed, a
\* no-break space and a carriage return outside the document element and,
\* inside it, around a name and a paragraph; then byte order marks,
\* surrogates written out and by reference, line ends of several kinds, and
\* "]]>" written out, in one piece and in two, after a child, with its ">" as
\* a reference, and around markup
Texts ==
    TokenTexts \cup { tostring(d) : d \in Docs }
    \cup { <<StartTag("doxygen", ""), Data(<<"\f">>), EndTag("doxygen")>>,
           <<Data(<<" ">>), StartTag("doxygen", ""), EndTag("doxygen")>>,
           <<StartTag("doxygen", ""), EndTag("doxygen"), CharRef("\r")>>,
           <<Data(<<"\r">>), StartTag("doxygen", ""), EndTag("doxygen"), Data(<<"\r", NL>>)>>,
           <<Data(<<BOM>>), StartTag("doxygen", ""), EndTag("doxygen")>>,
           <<Data(<<BOM, " ">>), StartTag("doxygen", ""), EndTag("doxygen")>>,
           <<Data(<<BOM, BOM>>), StartTag("doxygen", ""), EndTag("doxygen")>>,
           <<Data(<<" ", BOM>>), StartTag("doxygen", ""), EndTag("doxygen")>>,
           <<StartTag("doxygen", ""), EndTag("doxygen"), Data(<<BOM>>)>>,
           <<Data(<<BOM>>)>> \o NamedText("namespace", <<"N", BOM>>),
           <<StartTag("doxygen", ""), CharRef("U+D800"), EndTag("doxygen")>>,
           <<StartTag("doxygen", ""), Data(<<"U+D800">>), EndTag("doxygen")>>,
           <<Stray, Data(<<"x", "U+DFFF">>)>>,
           <<StartTag("doxygen", ""), StartTag("compounddef", "class"),
             StartTag("compoundname", ""), Data(<<"N", "\r">>), Data(<<>>),
             Data(<<NL, "\r", "x", "\r">>), CharRef(NL), CharRef("\r"), Data(<<NL, "y">>),
             EndTag("compoundname"), EndTag("compounddef"), EndTag("doxygen")>>,
           <<StartTag("doxygen", ""), Data(<<"]", "]", ">">>), EndTag("doxygen")>>,
           <<StartTag("doxygen", ""), Data(<<"]", "]">>), Data(<<>>), Data(<<">">>),
             EndTag("doxygen")>>,
           <<StartTag("doxygen", ""), StartTag("compounddef", "class"), EndTag("compounddef"),
             Data(<<"x", "]", "]", "]", ">">>), EndTag("doxygen")>>,
           <<StartTag("doxygen", ""), StartTag("compounddef", "class"),
             StartTag("compoundname", ""), Data(<<"a", "]", "]", ">", "b">>),
             EndTag("compoundname"), EndTag("compounddef"), EndTag("doxygen")>>,
           <<StartTag("doxygen", ""), StartTag("compounddef", "class"),
             StartTag("compoundname", ""), Data(<<"a", "]", "]">>), CharRef(">"), Data(<<"b">>),
             EndTag("compoundname"), EndTag("compounddef"), EndTag("doxygen")>>,
           <<StartTag("doxygen", ""), StartTag("compounddef", "class"),
             StartTag("compoundname", ""), Data(<<"]">>), CharRef("]"), Data(<<">", "]", ">", "]", "]">>),
             EndTag("compoundname"), Data(<<">">>), EndTag("compounddef"), EndTag("doxygen")>>,
           NamedText("class", <<"a", "]", "]", ">", "]", "]", ">", "\r", ">">>),
           tostring(CompoundDoc(<<Node("compounddef", "namespace",
               <<Leaf("compoundname", <<" ", "N", "\r">>),
                 Desc("briefdescription", <<>>, <<Para(<<" ", "p", "\r">>)>>)>>)>>)) }

---------------------------------------------------------------------------
(* The state machine.                                                      *)

IdleConv ==
    /\ doxygen_text = <<>> /\ root = None /\ md_parts = <<>> /\ idx = 0
    /\ result = <<>> /\ raised = ""
IdleAnchor == text = <<>> /\ s = <<>>
IdleText == elem = None /\ paras = <<>> /\ ret = <<>>
IdleCli ==
    /\ dir = <<>> /\ files = <<>> /\ fi = 0 /\ stderr = <<>> /\ written = <<>>
    /\ calls = <<>> /\ rc = -1 /\ fs = [cwd |-> <<>>, dirs |-> {}, files |-> {}]
    /\ exc = [type |-> "", line |-> 0] /\ outdir = <<>>
    /\ encodings = [stdout |-> "utf-8", fs |-> "utf-8"]

\* convert(doxygen_text) is called
InitConvert(texts) ==
    /\ pc = "convert"
    /\ doxygen_text \in texts
    /\ root = None /\ md_parts = <<>> /\ idx = 0 /\ result = <<>> /\ raised = ""
    /\ IdleAnchor /\ IdleText /\ IdleCli

\* lines 45-48: the text does not parse
RaiseValueError ==
    /\ pc = "convert"
    /\ fromstring(doxygen_text) = ParseError
    /\ pc' = "raised"
    /\ raised' = "ValueError"
    /\ UNCHANGED <<doxygen_text, root, md_parts, idx, result>>
    /\ UNCHANGED <<anchorVars, textVars, cliVars>>

\* line 46: the text cannot be encoded, and line 47 does not catch that
RaiseEncodeError ==
    /\ pc = "convert"
    /\ fromstring(doxygen_text) = UnicodeEncodeError
    /\ pc' = "raised"
    /\ raised' = "UnicodeEncodeError"
    /\ UNCHANGED <<doxygen_text, root, md_parts, idx, result>>
    /\ UNCHANGED <<anchorVars, textVars, cliVars>>

\* lines 45-50: the text parses
Parsed ==
    /\ pc = "convert"
    /\ fromstring(doxygen_text) \notin {ParseError, UnicodeEncodeError}
    /\ root' = fromstring(doxygen_text)
    /\ md_parts' = <<>>
    /\ idx' = 1
    /\ pc' = "compounds"
    /\ UNCHANGED <<doxygen_text, result, raised>>
    /\ UNCHANGED <<anchorVars, textVars, cliVars>>

\* lines 53-82: one compounddef
CompoundStep ==
    /\ pc = "compounds"
    /\ idx <= Len(findall_deep(root, "compounddef"))
    /\ md_parts' = md_parts \o compound_blocks(findall_deep(root, "compounddef")[idx])
    /\ idx' = idx + 1
    /\ UNCHANGED <<pc, doxygen_text, root, result, raised>>
    /\ UNCHANGED <<anchorVars, textVars, cliVars>>

\* line 85: the first loop is over
CompoundsDone ==
    /\ pc = "compounds"
    /\ idx > Len(findall_deep(root, "compounddef"))
    /\ pc' = "members"
    /\ idx' = 1
    /\ UNCHANGED <<doxygen_text, root, md_parts, result, raised>>
    /\ UNCHANGED <<anchorVars, textVars, cliVars>>

\* lines 85-167: one memberdef
MemberStep ==
    /\ pc = "members"
    /\ idx <= Len(findall_deep(root, "memberdef"))
    /\ md_parts' = member_blocks(findall_deep(root, "memberdef")[idx], md_parts)
    /\ idx' = idx + 1
    /\ UNCHANGED <<pc, doxygen_text, root, result, raised>>
    /\ UNCHANGED <<anchorVars, textVars, cliVars>>

\* line 169
Return ==
    /\ pc = "members"
    /\ idx > Len(findall_deep(root, "memberdef"))
    /\ result' = assemble(md_parts)
    /\ pc' = "returned"
    /\ UNCHANGED <<doxygen_text, root, md_parts, idx, raised>>
    /\ UNCHANGED <<anchorVars, textVars, cliVars>>

ConvertNext ==
    \/ RaiseValueError
    \/ RaiseEncodeError
    \/ Parsed
    \/ CompoundStep
    \/ CompoundsDone
    \/ MemberStep
    \/ Return

\* _anchor(text) is called
InitAnchor ==
    /\ pc = "anchor"
    /\ text \in AnchorTexts
    /\ s = <<>>
    /\ IdleConv /\ IdleText /\ IdleCli

\* line 94
AnchorLower ==
    /\ pc = "anchor"
    /\ s' = lower(text)
    /\ pc' = "anchor_sub"
    /\ UNCHANGED <<text, convVars, textVars, cliVars>>

\* line 98
AnchorSub ==
    /\ pc = "anchor_sub"
    /\ s' = re_sub(s)
    /\ pc' = "anchor_strip"
    /\ UNCHANGED <<text, convVars, textVars, cliVars>>

\* lines 99-100
AnchorStrip ==
    /\ pc = "anchor_strip"
    /\ s' = strip_chars(s, {"-"})
    /\ pc' = "anchor_returned"
    /\ UNCHANGED <<text, convVars, textVars, cliVars>>

AnchorNext == AnchorLower \/ AnchorSub \/ AnchorStrip

\* _text_from_elem(elem) is called
InitText ==
    /\ pc = "text"
    /\ elem \in TextNodes
    /\ paras = <<>> /\ ret = <<>>
    /\ IdleConv /\ IdleAnchor /\ IdleCli

\* lines 17-21
TextParas ==
    /\ pc = "text"
    /\ paras' = para_texts(findall(elem, "para"))
    /\ pc' = "text_fallback"
    /\ UNCHANGED <<elem, ret, convVars, anchorVars, cliVars>>

\* lines 23-26
TextFallback ==
    /\ pc = "text_fallback"
    /\ paras' = text_fallback(elem, paras)
    /\ pc' = "text_join"
    /\ UNCHANGED <<elem, ret, convVars, anchorVars, cliVars>>

\* line 27
TextReturn ==
    /\ pc = "text_join"
    /\ ret' = join(<<NL, NL>>, paras)
    /\ pc' = "text_returned"
    /\ UNCHANGED <<elem, paras, convVars, anchorVars, cliVars>>

TextNext == TextParas \/ TextFallback \/ TextReturn

Init == InitConvert(Texts)
Next == ConvertNext
Spec == Init /\ [][Next]_vars

---------------------------------------------------------------------------
(* main, directory mode (cli.py 27-67).                                    *)

\* the characters names are compared by, in the order of their code points:
\* U+0020..U+007E, then U+00E9, U+03A3, U+DCFF and U+1F600
CodePointOrder ==
    <<" ", "!", "U+0022", "#", "$", "%", "&", "'", "(", ")", "*", "+", ",", "-", ".", "/",
      "0", "1", "2", "3", "4", "5", "6", "7", "8", "9", ":", ";", "<", "=", ">", "?",
      "@", "A", "B", "C", "D", "E", "F", "G", "H", "I", "J", "K", "L", "M", "N", "O",
      "P", "Q", "R", "S", "T", "U", "V", "W", "X", "Y", "Z", "[", "U+005C", "]", "^", "_",
      "BACKQUOTE", "a", "b", "c", "d", "e", "f", "g", "h", "i", "j", "k", "l", "m", "n", "o",
      "p", "q", "r", "s", "t", "u", "v", "w", "x", "y", "z", "{", "|", "}", "~",
      "é", "Σ", "U+DCFF", "U+1F600">>

\* the rank of a character in the order of the code points
Ord(c) == CHOOSE i \in 1..Len(CodePointOrder) : CodePointOrder[i] = c

\* str comparison, a < b: at the first place they differ a holds the lesser
\* character, or a ends there
str_lt(a, b) ==
    \E k \in 1..Len(b) :
        /\ k <= Len(a) + 1
        /\ \A i \in 1..(k - 1) : a[i] = b[i]
        /\ (k <= Len(a) => a[k] # b[k] /\ Ord(a[k]) < Ord(b[k]))

RECURSIVE sorted(_)
\* line 31: sorted(...) of paths of one directory, by their names
sorted(names) ==
    IF names = {} THEN <<>>
    ELSE LET m == CHOOSE x \in names : \A y \in names \ {x} : str_lt(x, y)
         IN <<m>> \o sorted(names \ {m})

\* line 31: path.glob("*.xml") on the directory at the place loc: the names of
\* its entries, files and directories alike, that end in ".xml"
glob(tree, loc) ==
    { q[Len(q)] : q \in { e \in tree.dirs \cup tree.files :
                            /\ Len(e) = Len(loc) + 1
                            /\ SubSeq(e, 1, Len(loc)) = loc
                            /\ Len(e[Len(e)]) >= 4
                            /\ SubSeq(e[Len(e)], Len(e[Len(e)]) - 3, Len(e[Len(e)]))
                                   = <<".", "x", "m", "l">> } }

\* line 64: xml_file.stem, of a name that ends in ".xml": the name without
\* its suffix; the name ".xml" has no suffix
stem_of(name) ==
    IF Len(name) = 4 THEN name ELSE SubSeq(name, 1, Len(name) - 4)

\* lines 42-52: the name and the kind of the root's first compounddef child
first_compound(toks) ==
    LET r == fromstring(toks)
        comp == IF r \in {ParseError, UnicodeEncodeError} THEN None
                ELSE find(r, "compounddef")
    IN [compname |-> strip(IF comp # None THEN findtext(comp, "compoundname") ELSE <<>>),
        kind |-> IF comp # None THEN get_kind(comp) ELSE ""]

\* the scope separator looked at before the kind
group_for_scope_first(kind, compname) ==
    IF contains(compname, L_scope) THEN split_first(compname, L_scope)
    ELSE IF kind = "namespace" /\ compname # <<>> THEN compname
    ELSE L_global

\* lines 54-59
group_for(kind, compname) ==
    IF kind = "namespace" /\ compname # <<>> THEN compname
    ELSE IF contains(compname, L_scope) THEN split_first(compname, L_scope)
    ELSE L_global

\* lines 42-59
group_of(toks) == group_for(first_compound(toks).kind, first_compound(toks).compname)


\* the characters U+0000..U+007F, one byte each in UTF-8
Ascii ==
    {"U+0000", "", "", "", "", "", "", "", "", "\t", "\n", "",
     "\f", "\r", "", "", "", "", "", "", "", "", "", "",
     "", "", "", "", "", "", "", "", " ", "!", "U+0022", "#",
     "$", "%", "&", "'", "(", ")", "*", "+", ",", "-", ".", "/",
     "0", "1", "2", "3", "4", "5", "6", "7", "8", "9", ":", ";",
     "<", "=", ">", "?", "@", "A", "B", "C", "D", "E", "F", "G",
     "H", "I", "J", "K", "L", "M", "N", "O", "P", "Q", "R", "S",
     "T", "U", "V", "W", "X", "Y", "Z", "[", "U+005C", "]", "^", "_",
     "BACKQUOTE", "a", "b", "c", "d", "e", "f", "g", "h", "i", "j", "k",
     "l", "m", "n", "o", "p", "q", "r", "s", "t", "u", "v", "w",
     "x", "y", "z", "{", "|", "}", "~", ""}

\* the characters U+0080..U+00FF, which with Ascii make up Latin-1
Latin1 ==
    {"", "", "", "", "", "", "", "", "", "", "", "",
     "", "", "", "", "", "", "", "", "", "", "", "",
     "", "", "", "", "", "", "", "", " ", "¡", "¢", "£",
     "¤", "¥", "¦", "§", "¨", "©", "ª", "«", "¬", "­", "®", "¯",
     "°", "±", "²", "³", "´", "µ", "¶", "·", "¸", "¹", "º", "»",
     "¼", "½", "¾", "¿", "À", "Á", "Â", "Ã", "Ä", "Å", "Æ", "Ç",
     "È", "É", "Ê", "Ë", "Ì", "Í", "Î", "Ï", "Ð", "Ñ", "Ò", "Ó",
     "Ô", "Õ", "Ö", "×", "Ø", "Ù", "Ú", "Û", "Ü", "Ý", "Þ", "ß",
     "à", "á", "â", "ã", "ä", "å", "æ", "ç", "è", "é", "ê", "ë",
     "ì", "í", "î", "ï", "ð", "ñ", "ò", "ó", "ô", "õ", "ö", "÷",
     "ø", "ù", "ú", "û", "ü", "ý", "þ", "ÿ"}

\* the characters U+0100..U+07FF: with Latin1, those of two bytes in UTF-8
TwoByte ==
    {"U+0100", "U+0101", "U+0102", "U+0103", "U+0104", "U+0105", "U+0106", "U+0107", "U+0108", "U+0109", "U+010A", "U+010B",
     "U+010C", "U+010D", "U+010E", "U+010F", "U+0110", "U+0111", "U+0112", "U+0113", "U+0114", "U+0115", "U+0116", "U+0117",
     "U+0118", "U+0119", "U+011A", "U+011B", "U+011C", "U+011D", "U+011E", "U+011F", "U+0120", "U+0121", "U+0122", "U+0123",
     "U+0124", "U+0125", "U+0126", "U+0127", "U+0128", "U+0129", "U+012A", "U+012B", "U+012C", "U+012D", "U+012E", "U+012F",
     "U+0130", "U+0131", "U+0132", "U+0133", "U+0134", "U+0135", "U+0136", "U+0137", "U+0138", "U+0139", "U+013A", "U+013B",
     "U+013C", "U+013D", "U+013E", "U+013F", "U+0140", "U+0141", "U+0142", "U+0143", "U+0144", "U+0145", "U+0146", "U+0147",
     "U+0148", "U+0149", "U+014A", "U+014B", "U+014C", "U+014D", "U+014E", "U+014F", "U+0150", "U+0151", "U+0152", "U+0153",
     "U+0154", "U+0155", "U+0156", "U+0157", "U+0158", "U+0159", "U+015A", "U+015B", "U+015C", "U+015D", "U+015E", "U+015F",
     "U+0160", "U+0161", "U+0162", "U+0163", "U+0164", "U+0165", "U+0166", "U+0167", "U+0168", "U+0169", "U+016A", "U+016B",
     "U+016C", "U+016D", "U+016E", "U+016F", "U+0170", "U+0171", "U+0172", "U+0173", "U+0174", "U+0175", "U+0176", "U+0177",
     "U+0178", "U+0179", "U+017A", "U+017B", "U+017C", "U+017D", "U+017E", "U+017F", "ƀ", "Ɓ", "Ƃ", "ƃ",
     "Ƅ", "ƅ", "Ɔ", "Ƈ", "ƈ", "Ɖ", "Ɗ", "Ƌ", "ƌ", "ƍ", "Ǝ", "Ə",
     "Ɛ", "Ƒ", "ƒ", "Ɠ", "Ɣ", "ƕ", "Ɩ", "Ɨ", "Ƙ", "ƙ", "ƚ", "ƛ",
     "Ɯ", "Ɲ", "ƞ", "Ɵ", "Ơ", "ơ", "Ƣ", "ƣ", "Ƥ", "ƥ", "Ʀ", "Ƨ",
     "ƨ", "Ʃ", "ƪ", "ƫ", "Ƭ", "ƭ", "Ʈ", "Ư", "ư", "Ʊ", "Ʋ", "Ƴ",
     "ƴ", "Ƶ", "ƶ", "Ʒ", "Ƹ", "ƹ", "ƺ", "ƻ", "Ƽ", "ƽ", "ƾ", "ƿ",
     "ǀ", "ǁ", "ǂ", "ǃ", "Ǆ", "ǅ", "ǆ", "Ǉ", "ǈ", "ǉ", "Ǌ", "ǋ",
     "ǌ", "Ǎ", "ǎ", "Ǐ", "ǐ", "Ǒ", "ǒ", "Ǔ", "ǔ", "Ǖ", "ǖ", "Ǘ",
     "ǘ", "Ǚ", "ǚ", "Ǜ", "ǜ", "ǝ", "Ǟ", "ǟ", "Ǡ", "ǡ", "Ǣ", "ǣ",
     "Ǥ", "ǥ", "Ǧ", "ǧ", "Ǩ", "ǩ", "Ǫ", "ǫ", "Ǭ", "ǭ", "Ǯ", "ǯ",
     "ǰ", "Ǳ", "ǲ", "ǳ", "Ǵ", "ǵ", "Ƕ", "Ƿ", "Ǹ", "ǹ", "Ǻ", "ǻ",
     "Ǽ", "ǽ", "Ǿ", "ǿ", "U+0200", "U+0201", "U+0202", "U+0203", "U+0204", "U+0205", "U+0206", "U+0207",
     "U+0208", "U+0209", "U+020A", "U+020B", "U+020C", "U+020D", "U+020E", "U+020F", "U+0210", "U+0211", "U+0212", "U+0213",
     "U+0214", "U+0215", "U+0216", "U+0217", "U+0218", "U+0219", "U+021A", "U+021B", "U+021C", "U+021D", "U+021E", "U+021F",
     "U+0220", "U+0221", "U+0222", "U+0223", "U+0224", "U+0225", "U+0226", "U+0227", "U+0228", "U+0229", "U+022A", "U+022B",
     "U+022C", "U+022D", "U+022E", "U+022F", "U+0230", "U+0231", "U+0232", "U+0233", "U+0234", "U+0235", "U+0236", "U+0237",
     "U+0238", "U+0239", "U+023A", "U+023B", "U+023C", "U+023D", "U+023E", "U+023F", "U+0240", "U+0241", "U+0242", "U+0243",
     "U+0244", "U+0245", "U+0246", "U+0247", "U+0248", "U+0249", "U+024A", "U+024B", "U+024C", "U+024D", "U+024E", "U+024F",
     "U+0250", "U+0251", "U+0252", "U+0253", "U+0254", "U+0255", "U+0256", "U+0257", "U+0258", "U+0259", "U+025A", "U+025B",
     "U+025C", "U+025D", "U+025E", "U+025F", "U+0260", "U+0261", "U+0262", "U+0263", "U+0264", "U+0265", "U+0266", "U+0267",
     "U+0268", "U+0269", "U+026A", "U+026B", "U+026C", "U+026D", "U+026E", "U+026F", "U+0270", "U+0271", "U+0272", "U+0273",
     "U+0274", "U+0275", "U+0276", "U+0277", "U+0278", "U+0279", "U+027A", "U+027B", "U+027C", "U+027D", "U+027E", "U+027F",
     "ʀ", "ʁ", "ʂ", "ʃ", "ʄ", "ʅ", "ʆ", "ʇ", "ʈ", "ʉ", "ʊ", "ʋ",
     "ʌ", "ʍ", "ʎ", "ʏ", "ʐ", "ʑ", "ʒ", "ʓ", "ʔ", "ʕ", "ʖ", "ʗ",
     "ʘ", "ʙ", "ʚ", "ʛ", "ʜ", "ʝ", "ʞ", "ʟ", "ʠ", "ʡ", "ʢ", "ʣ",
     "ʤ", "ʥ", "ʦ", "ʧ", "ʨ", "ʩ", "ʪ", "ʫ", "ʬ", "ʭ", "ʮ", "ʯ",
     "ʰ", "ʱ", "ʲ", "ʳ", "ʴ", "ʵ", "ʶ", "ʷ", "ʸ", "ʹ", "ʺ", "ʻ",
     "ʼ", "ʽ", "ʾ", "ʿ", "ˀ", "ˁ", "˂", "˃", "˄", "˅", "ˆ", "ˇ",
     "ˈ", "ˉ", "ˊ", "ˋ", "ˌ", "ˍ", "ˎ", "ˏ", "ː", "ˑ", "˒", "˓",
     "˔", "˕", "˖", "˗", "˘", "˙", "˚", "˛", "˜", "˝", "˞", "˟",
     "ˠ", "ˡ", "ˢ", "ˣ", "ˤ", "˥", "˦", "˧", "˨", "˩", "˪", "˫",
     "ˬ", "˭", "ˮ", "˯", "˰", "˱", "˲", "˳", "˴", "˵", "˶", "˷",
     "˸", "˹", "˺", "˻", "˼", "˽", "˾", "˿", "U+0300", "U+0301", "U+0302", "U+0303",
     "U+0304", "U+0305", "U+0306", "U+0307", "U+0308", "U+0309", "U+030A", "U+030B", "U+030C", "U+030D", "U+030E", "U+030F",
     "U+0310", "U+0311", "U+0312", "U+0313", "U+0314", "U+0315", "U+0316", "U+0317", "U+0318", "U+0319", "U+031A", "U+031B",
     "U+031C", "U+031D", "U+031E", "U+031F", "U+0320", "U+0321", "U+0322", "U+0323", "U+0324", "U+0325", "U+0326", "U+0327",
     "U+0328", "U+0329", "U+032A", "U+032B", "U+032C", "U+032D", "U+032E", "U+032F", "U+0330", "U+0331", "U+0332", "U+0333",
     "U+0334", "U+0335", "U+0336", "U+0337", "U+0338", "U+0339", "U+033A", "U+033B", "U+033C", "U+033D", "U+033E", "U+033F",
     "U+0340", "U+0341", "U+0342", "U+0343", "U+0344", "U+0345", "U+0346", "U+0347", "U+0348", "U+0349", "U+034A", "U+034B",
     "U+034C", "U+034D", "U+034E", "U+034F", "U+0350", "U+0351", "U+0352", "U+0353", "U+0354", "U+0355", "U+0356", "U+0357",
     "U+0358", "U+0359", "U+035A", "U+035B", "U+035C", "U+035D", "U+035E", "U+035F", "U+0360", "U+0361", "U+0362", "U+0363",
     "U+0364", "U+0365", "U+0366", "U+0367", "U+0368", "U+0369", "U+036A", "U+036B", "U+036C", "U+036D", "U+036E", "U+036F",
     "U+0370", "U+0371", "U+0372", "U+0373", "U+0374", "U+0375", "U+0376", "U+0377", "U+0378", "U+0379", "U+037A", "U+037B",
     "U+037C", "U+037D", "U+037E", "U+037F", "΀", "΁", "΂", "΃", "΄", "΅", "Ά", "·",
     "Έ", "Ή", "Ί", "΋", "Ό", "΍", "Ύ", "Ώ", "ΐ", "Α", "Β", "Γ",
     "Δ", "Ε", "Ζ", "Η", "Θ", "Ι", "Κ", "Λ", "Μ", "Ν", "Ξ", "Ο",
     "Π", "Ρ", "΢", "Σ", "Τ", "Υ", "Φ", "Χ", "Ψ", "Ω", "Ϊ", "Ϋ",
     "ά", "έ", "ή", "ί", "ΰ", "α", "β", "γ", "δ", "ε", "ζ", "η",
     "θ", "ι", "κ", "λ", "μ", "ν", "ξ", "ο", "π", "ρ", "ς", "σ",
     "τ", "υ", "φ", "χ", "ψ", "ω", "ϊ", "ϋ", "ό", "ύ", "ώ", "Ϗ",
     "ϐ", "ϑ", "ϒ", "ϓ", "ϔ", "ϕ", "ϖ", "ϗ", "Ϙ", "ϙ", "Ϛ", "ϛ",
     "Ϝ", "ϝ", "Ϟ", "ϟ", "Ϡ", "ϡ", "Ϣ", "ϣ", "Ϥ", "ϥ", "Ϧ", "ϧ",
     "Ϩ", "ϩ", "Ϫ", "ϫ", "Ϭ", "ϭ", "Ϯ", "ϯ", "ϰ", "ϱ", "ϲ", "ϳ",
     "ϴ", "ϵ", "϶", "Ϸ", "ϸ", "Ϲ", "Ϻ", "ϻ", "ϼ", "Ͻ", "Ͼ", "Ͽ",
     "U+0400", "U+0401", "U+0402", "U+0403", "U+0404", "U+0405", "U+0406", "U+0407", "U+0408", "U+0409", "U+040A", "U+040B",
     "U+040C", "U+040D", "U+040E", "U+040F", "U+0410", "U+0411", "U+0412", "U+0413", "U+0414", "U+0415", "U+0416", "U+0417",
     "U+0418", "U+0419", "U+041A", "U+041B", "U+041C", "U+041D", "U+041E", "U+041F", "U+0420", "U+0421", "U+0422", "U+0423",
     "U+0424", "U+0425", "U+0426", "U+0427", "U+0428", "U+0429", "U+042A", "U+042B", "U+042C", "U+042D", "U+042E", "U+042F",
     "U+0430", "U+0431", "U+0432", "U+0433", "U+0434", "U+0435", "U+0436", "U+0437", "U+0438", "U+0439", "U+043A", "U+043B",
     "U+043C", "U+043D", "U+043E", "U+043F", "U+0440", "U+0441", "U+0442", "U+0443", "U+0444", "U+0445", "U+0446", "U+0447",
     "U+0448", "U+0449", "U+044A", "U+044B", "U+044C", "U+044D", "U+044E", "U+044F", "U+0450", "U+0451", "U+0452", "U+0453",
     "U+0454", "U+0455", "U+0456", "U+0457", "U+0458", "U+0459", "U+045A", "U+045B", "U+045C", "U+045D", "U+045E", "U+045F",
     "U+0460", "U+0461", "U+0462", "U+0463", "U+0464", "U+0465", "U+0466", "U+0467", "U+0468", "U+0469", "U+046A", "U+046B",
     "U+046C", "U+046D", "U+046E", "U+046F", "U+0470", "U+0471", "U+0472", "U+0473", "U+0474", "U+0475", "U+0476", "U+0477",
     "U+0478", "U+0479", "U+047A", "U+047B", "U+047C", "U+047D", "U+047E", "U+047F", "Ҁ", "ҁ", "҂", "҃",
     "҄", "҅", "҆", "҇", "҈", "҉", "Ҋ", "ҋ", "Ҍ", "ҍ", "Ҏ", "ҏ",
     "Ґ", "ґ", "Ғ", "ғ", "Ҕ", "ҕ", "Җ", "җ", "Ҙ", "ҙ", "Қ", "қ",
     "Ҝ", "ҝ", "Ҟ", "ҟ", "Ҡ", "ҡ", "Ң", "ң", "Ҥ", "ҥ", "Ҧ", "ҧ",
     "Ҩ", "ҩ", "Ҫ", "ҫ", "Ҭ", "ҭ", "Ү", "ү", "Ұ", "ұ", "Ҳ", "ҳ",
     "Ҵ", "ҵ", "Ҷ", "ҷ", "Ҹ", "ҹ", "Һ", "һ", "Ҽ", "ҽ", "Ҿ", "ҿ",
     "Ӏ", "Ӂ", "ӂ", "Ӄ", "ӄ", "Ӆ", "ӆ", "Ӈ", "ӈ", "Ӊ", "ӊ", "Ӌ",
     "ӌ", "Ӎ", "ӎ", "ӏ", "Ӑ", "ӑ", "Ӓ", "ӓ", "Ӕ", "ӕ", "Ӗ", "ӗ",
     "Ә", "ә", "Ӛ", "ӛ", "Ӝ", "ӝ", "Ӟ", "ӟ", "Ӡ", "ӡ", "Ӣ", "ӣ",
     "Ӥ", "ӥ", "Ӧ", "ӧ", "Ө", "ө", "Ӫ", "ӫ", "Ӭ", "ӭ", "Ӯ", "ӯ",
     "Ӱ", "ӱ", "Ӳ", "ӳ", "Ӵ", "ӵ", "Ӷ", "ӷ", "Ӹ", "ӹ", "Ӻ", "ӻ",
     "Ӽ", "ӽ", "Ӿ", "ӿ", "U+0500", "U+0501", "U+0502", "U+0503", "U+0504", "U+0505", "U+0506", "U+0507",
     "U+0508", "U+0509", "U+050A", "U+050B", "U+050C", "U+050D", "U+050E", "U+050F", "U+0510", "U+0511", "U+0512", "U+0513",
     "U+0514", "U+0515", "U+0516", "U+0517", "U+0518", "U+0519", "U+051A", "U+051B", "U+051C", "U+051D", "U+051E", "U+051F",
     "U+0520", "U+0521", "U+0522", "U+0523", "U+0524", "U+0525", "U+0526", "U+0527", "U+0528", "U+0529", "U+052A", "U+052B",
     "U+052C", "U+052D", "U+052E", "U+052F", "U+0530", "U+0531", "U+0532", "U+0533", "U+0534", "U+0535", "U+0536", "U+0537",
     "U+0538", "U+0539", "U+053A", "U+053B", "U+053C", "U+053D", "U+053E", "U+053F", "U+0540", "U+0541", "U+0542", "U+0543",
     "U+0544", "U+0545", "U+0546", "U+0547", "U+0548", "U+0549", "U+054A", "U+054B", "U+054C", "U+054D", "U+054E", "U+054F",
     "U+0550", "U+0551", "U+0552", "U+0553", "U+0554", "U+0555", "U+0556", "U+0557", "U+0558", "U+0559", "U+055A", "U+055B",
     "U+055C", "U+055D", "U+055E", "U+055F", "U+0560", "U+0561", "U+0562", "U+0563", "U+0564", "U+0565", "U+0566", "U+0567",
     "U+0568", "U+0569", "U+056A", "U+056B", "U+056C", "U+056D", "U+056E", "U+056F", "U+0570", "U+0571", "U+0572", "U+0573",
     "U+0574", "U+0575", "U+0576", "U+0577", "U+0578", "U+0579", "U+057A", "U+057B", "U+057C", "U+057D", "U+057E", "U+057F",
     "ր", "ց", "ւ", "փ", "ք", "օ", "ֆ", "և", "ֈ", "։", "֊", "֋",
     "֌", "֍", "֎", "֏", "֐", "֑", "֒", "֓", "֔", "֕", "֖", "֗",
     "֘", "֙", "֚", "֛", "֜", "֝", "֞", "֟", "֠", "֡", "֢", "֣",
     "֤", "֥", "֦", "֧", "֨", "֩", "֪", "֫", "֬", "֭", "֮", "֯",
     "ְ", "ֱ", "ֲ", "ֳ", "ִ", "ֵ", "ֶ", "ַ", "ָ", "ֹ", "ֺ", "ֻ",
     "ּ", "ֽ", "־", "ֿ", "׀", "ׁ", "ׂ", "׃", "ׄ", "ׅ", "׆", "ׇ",
     "׈", "׉", "׊", "׋", "׌", "׍", "׎", "׏", "א", "ב", "ג", "ד",
     "ה", "ו", "ז", "ח", "ט", "י", "ך", "כ", "ל", "ם", "מ", "ן",
     "נ", "ס", "ע", "ף", "פ", "ץ", "צ", "ק", "ר", "ש", "ת", "׫",
     "׬", "׭", "׮", "ׯ", "װ", "ױ", "ײ", "׳", "״", "׵", "׶", "׷",
     "׸", "׹", "׺", "׻", "׼", "׽", "׾", "׿", "U+0600", "U+0601", "U+0602", "U+0603",
     "U+0604", "U+0605", "U+0606", "U+0607", "U+0608", "U+0609", "U+060A", "U+060B", "U+060C", "U+060D", "U+060E", "U+060F",
     "U+0610", "U+0611", "U+0612", "U+0613", "U+0614", "U+0615", "U+0616", "U+0617", "U+0618", "U+0619", "U+061A", "U+061B",
     "U+061C", "U+061D", "U+061E", "U+061F", "U+0620", "U+0621", "U+0622", "U+0623", "U+0624", "U+0625", "U+0626", "U+0627",
     "U+0628", "U+0629", "U+062A", "U+062B", "U+062C", "U+062D", "U+062E", "U+062F", "U+0630", "U+0631", "U+0632", "U+0633",
     "U+0634", "U+0635", "U+0636", "U+0637", "U+0638", "U+0639", "U+063A", "U+063B", "U+063C", "U+063D", "U+063E", "U+063F",
     "U+0640", "U+0641", "U+0642", "U+0643", "U+0644", "U+0645", "U+0646", "U+0647", "U+0648", "U+0649", "U+064A", "U+064B",
     "U+064C", "U+064D", "U+064E", "U+064F", "U+0650", "U+0651", "U+0652", "U+0653", "U+0654", "U+0655", "U+0656", "U+0657",
     "U+0658", "U+0659", "U+065A", "U+065B", "U+065C", "U+065D", "U+065E", "U+065F", "U+0660", "U+0661", "U+0662", "U+0663",
     "U+0664", "U+0665", "U+0666", "U+0667", "U+0668", "U+0669", "U+066A", "U+066B", "U+066C", "U+066D", "U+066E", "U+066F",
     "U+0670", "U+0671", "U+0672", "U+0673", "U+0674", "U+0675", "U+0676", "U+0677", "U+0678", "U+0679", "U+067A", "U+067B",
     "U+067C", "U+067D", "U+067E", "U+067F", "ڀ", "ځ", "ڂ", "ڃ", "ڄ", "څ", "چ", "ڇ",
     "ڈ", "ډ", "ڊ", "ڋ", "ڌ", "ڍ", "ڎ", "ڏ", "ڐ", "ڑ", "ڒ", "ړ",
     "ڔ", "ڕ", "ږ", "ڗ", "ژ", "ڙ", "ښ", "ڛ", "ڜ", "ڝ", "ڞ", "ڟ",
     "ڠ", "ڡ", "ڢ", "ڣ", "ڤ", "ڥ", "ڦ", "ڧ", "ڨ", "ک", "ڪ", "ګ",
     "ڬ", "ڭ", "ڮ", "گ", "ڰ", "ڱ", "ڲ", "ڳ", "ڴ", "ڵ", "ڶ", "ڷ",
     "ڸ", "ڹ", "ں", "ڻ", "ڼ", "ڽ", "ھ", "ڿ", "ۀ", "ہ", "ۂ", "ۃ",
     "ۄ", "ۅ", "ۆ", "ۇ", "ۈ", "ۉ", "ۊ", "ۋ", "ی", "ۍ", "ێ", "ۏ",
     "ې", "ۑ", "ے", "ۓ", "۔", "ە", "ۖ", "ۗ", "ۘ", "ۙ", "ۚ", "ۛ",
     "ۜ", "۝", "۞", "۟", "۠", "ۡ", "ۢ", "ۣ", "ۤ", "ۥ", "ۦ", "ۧ",
     "ۨ", "۩", "۪", "۫", "۬", "ۭ", "ۮ", "ۯ", "۰", "۱", "۲", "۳",
     "۴", "۵", "۶", "۷", "۸", "۹", "ۺ", "ۻ", "ۼ", "۽", "۾", "ۿ",
     "U+0700", "U+0701", "U+0702", "U+0703", "U+0704", "U+0705", "U+0706", "U+0707", "U+0708", "U+0709", "U+070A", "U+070B",
     "U+070C", "U+070D", "U+070E", "U+070F", "U+0710", "U+0711", "U+0712", "U+0713", "U+0714", "U+0715", "U+0716", "U+0717",
     "U+0718", "U+0719", "U+071A", "U+071B", "U+071C", "U+071D", "U+071E", "U+071F", "U+0720", "U+0721", "U+0722", "U+0723",
     "U+0724", "U+0725", "U+0726", "U+0727", "U+0728", "U+0729", "U+072A", "U+072B", "U+072C", "U+072D", "U+072E", "U+072F",
     "U+0730", "U+0731", "U+0732", "U+0733", "U+0734", "U+0735", "U+0736", "U+0737", "U+0738", "U+0739", "U+073A", "U+073B",
     "U+073C", "U+073D", "U+073E", "U+073F", "U+0740", "U+0741", "U+0742", "U+0743", "U+0744", "U+0745", "U+0746", "U+0747",
     "U+0748", "U+0749", "U+074A", "U+074B", "U+074C", "U+074D", "U+074E", "U+074F", "U+0750", "U+0751", "U+0752", "U+0753",
     "U+0754", "U+0755", "U+0756", "U+0757", "U+0758", "U+0759", "U+075A", "U+075B", "U+075C", "U+075D", "U+075E", "U+075F",
     "U+0760", "U+0761", "U+0762", "U+0763", "U+0764", "U+0765", "U+0766", "U+0767", "U+0768", "U+0769", "U+076A", "U+076B",
     "U+076C", "U+076D", "U+076E", "U+076F", "U+0770", "U+0771", "U+0772", "U+0773", "U+0774", "U+0775", "U+0776", "U+0777",
     "U+0778", "U+0779", "U+077A", "U+077B", "U+077C", "U+077D", "U+077E", "U+077F", "ހ", "ށ", "ނ", "ރ",
     "ބ", "ޅ", "ކ", "އ", "ވ", "މ", "ފ", "ދ", "ތ", "ލ", "ގ", "ޏ",
     "ސ", "ޑ", "ޒ", "ޓ", "ޔ", "ޕ", "ޖ", "ޗ", "ޘ", "ޙ", "ޚ", "ޛ",
     "ޜ", "ޝ", "ޞ", "ޟ", "ޠ", "ޡ", "ޢ", "ޣ", "ޤ", "ޥ", "ަ", "ާ",
     "ި", "ީ", "ު", "ޫ", "ެ", "ޭ", "ޮ", "ޯ", "ް", "ޱ", "޲", "޳",
     "޴", "޵", "޶", "޷", "޸", "޹", "޺", "޻", "޼", "޽", "޾", "޿",
     "߀", "߁", "߂", "߃", "߄", "߅", "߆", "߇", "߈", "߉", "ߊ", "ߋ",
     "ߌ", "ߍ", "ߎ", "ߏ", "ߐ", "ߑ", "ߒ", "ߓ", "ߔ", "ߕ", "ߖ", "ߗ",
     "ߘ", "ߙ", "ߚ", "ߛ", "ߜ", "ߝ", "ߞ", "ߟ", "ߠ", "ߡ", "ߢ", "ߣ",
     "ߤ", "ߥ", "ߦ", "ߧ", "ߨ", "ߩ", "ߪ", "߫", "߬", "߭", "߮", "߯",
     "߰", "߱", "߲", "߳", "ߴ", "ߵ", "߶", "߷", "߸", "߹", "ߺ", "߻",
     "߼", "߽", "߾", "߿"}

\* the surrogates U+DC80..U+DCFF, by which a str holds the bytes of a file
\* name or of an argument that are no UTF-8 (the error handler surrogateescape)
EscapedBytes ==
    {"U+DC80", "U+DC81", "U+DC82", "U+DC83", "U+DC84", "U+DC85", "U+DC86", "U+DC87",
     "U+DC88", "U+DC89", "U+DC8A", "U+DC8B", "U+DC8C", "U+DC8D", "U+DC8E", "U+DC8F",
     "U+DC90", "U+DC91", "U+DC92", "U+DC93", "U+DC94", "U+DC95", "U+DC96", "U+DC97",
     "U+DC98", "U+DC99", "U+DC9A", "U+DC9B", "U+DC9C", "U+DC9D", "U+DC9E", "U+DC9F",
     "U+DCA0", "U+DCA1", "U+DCA2", "U+DCA3", "U+DCA4", "U+DCA5", "U+DCA6", "U+DCA7",
     "U+DCA8", "U+DCA9", "U+DCAA", "U+DCAB", "U+DCAC", "U+DCAD", "U+DCAE", "U+DCAF",
     "U+DCB0", "U+DCB1", "U+DCB2", "U+DCB3", "U+DCB4", "U+DCB5", "U+DCB6", "U+DCB7",
     "U+DCB8", "U+DCB9", "U+DCBA", "U+DCBB", "U+DCBC", "U+DCBD", "U+DCBE", "U+DCBF",
     "U+DCC0", "U+DCC1", "U+DCC2", "U+DCC3", "U+DCC4", "U+DCC5", "U+DCC6", "U+DCC7",
     "U+DCC8", "U+DCC9", "U+DCCA", "U+DCCB", "U+DCCC", "U+DCCD", "U+DCCE", "U+DCCF",
     "U+DCD0", "U+DCD1", "U+DCD2", "U+DCD3", "U+DCD4", "U+DCD5", "U+DCD6", "U+DCD7",
     "U+DCD8", "U+DCD9", "U+DCDA", "U+DCDB", "U+DCDC", "U+DCDD", "U+DCDE", "U+DCDF",
     "U+DCE0", "U+DCE1", "U+DCE2", "U+DCE3", "U+DCE4", "U+DCE5", "U+DCE6", "U+DCE7",
     "U+DCE8", "U+DCE9", "U+DCEA", "U+DCEB", "U+DCEC", "U+DCED", "U+DCEE", "U+DCEF",
     "U+DCF0", "U+DCF1", "U+DCF2", "U+DCF3", "U+DCF4", "U+DCF5", "U+DCF6", "U+DCF7",
     "U+DCF8", "U+DCF9", "U+DCFA", "U+DCFB", "U+DCFC", "U+DCFD", "U+DCFE", "U+DCFF"}

\* the bytes a character takes in a file name: a character beyond U+FFFF is
\* written here by its code point, of more than four digits
utf8_len(c) ==
    IF c \in Ascii \cup EscapedBytes THEN 1
    ELSE IF c \in Latin1 \cup TwoByte THEN 2
    ELSE IF c # BT /\ Len(c) > 6 THEN 4
    ELSE 3

\* the length of a str in bytes
bytes_of(str) ==
    LET of_len(n) == Cardinality({i \in 1..Len(str) : utf8_len(str[i]) = n})
    IN of_len(1) + 2 * of_len(2) + 3 * of_len(3) + 4 * of_len(4)

\* whether print can write a character to a stdout of an encoding (errors
\* are strict there)
encodable(c, encoding) ==
    CASE encoding = "utf-8" -> c \notin Surrogates
      [] encoding = "latin-1" -> c \in Ascii \cup Latin1
      [] encoding = "ascii" -> c \in Ascii

\* whether os.fsencode can encode a character of a path
fsencodable(c, encoding) ==
    \/ c \in EscapedBytes
    \/ encodable(c, encoding)

\* the limits of the file system (Linux: NAME_MAX, PATH_MAX)
NameMax == 255
PathMax == 4096

\* pathlib: the parts of Path(str).  Empty parts and "." are dropped, ".." is
\* kept; an absolute str starts with the root, "/" or (for exactly two
\* slashes) "//"
path_parts(str) ==
    LET ends == <<0>> \o SelectSeq([i \in 1..Len(str) |-> i], LAMBDA i : str[i] = "/")
                \o <<Len(str) + 1>>
        comps == [k \in 1..(Len(ends) - 1) |-> SubSeq(str, ends[k] + 1, ends[k + 1] - 1)]
        kept == SelectSeq(comps, LAMBDA c : c # <<>> /\ c # <<".">>)
        two == Len(str) >= 2 /\ str[2] = "/" /\ (Len(str) = 2 \/ str[3] # "/")
    IN IF str # <<>> /\ str[1] = "/"
       THEN << IF two THEN <<"/", "/">> ELSE <<"/">> >> \o kept
       ELSE kept

\* whether a part is a root
is_root(c) == c \in { <<"/">>, <<"/", "/">> }

\* Path.joinpath: parts that start with a root replace the path
joinpath(parts, more) ==
    IF more # <<>> /\ is_root(more[1]) THEN more ELSE parts \o more

\* the length in bytes of str(path)
path_bytes(parts) ==
    LET rooted == parts # <<>> /\ is_root(parts[1])
        names == IF rooted THEN Tail(parts) ELSE parts
        sum[k \in 0..Len(names)] == IF k = 0 THEN 0 ELSE sum[k - 1] + bytes_of(names[k])
    IN IF parts = <<>> THEN 1
       ELSE (IF rooted THEN Len(parts[1]) ELSE 0) + sum[Len(names)]
            + (IF names = <<>> THEN 0 ELSE Len(names) - 1)

\* The file system is a record [cwd, dirs, files]: a place is the sequence of
\* names that leads to it from the root (<<>>), dirs and files are the places
\* of the directories and of the regular files, cwd is the place of the
\* working directory.  The root is a directory.
is_dir_at(tree, loc) == loc = <<>> \/ loc \in tree.dirs

RECURSIVE resolve(_, _, _)
\* the kernel's walk along the parts of a path, from the place loc: the place
\* the path names (which need not exist), or the error met on the way
resolve(tree, parts, loc) ==
    IF parts = <<>> THEN [err |-> "", loc |-> loc]
    ELSE IF loc \in tree.files THEN [err |-> "ENOTDIR", loc |-> loc]
    ELSE IF ~is_dir_at(tree, loc) THEN [err |-> "ENOENT", loc |-> loc]
    ELSE IF bytes_of(Head(parts)) > NameMax THEN [err |-> "ENAMETOOLONG", loc |-> loc]
    ELSE LET c == Head(parts)
             to == IF is_root(c) THEN <<>>
                   ELSE IF c # <<".", ".">> THEN Append(loc, c)
                   ELSE IF loc = <<>> THEN loc
                   ELSE SubSeq(loc, 1, Len(loc) - 1)
         IN resolve(tree, Tail(parts), to)

\* the walk of a whole path from the working directory; a path of PathMax
\* bytes or more is refused before it
lookup(tree, parts) ==
    IF path_bytes(parts) >= PathMax THEN [err |-> "ENAMETOOLONG", loc |-> tree.cwd]
    ELSE resolve(tree, parts, tree.cwd)

\* the exception class of an errno
OSError(err) ==
    CASE err = "EEXIST" -> "FileExistsError"
      [] err = "ENOTDIR" -> "NotADirectoryError"
      [] err = "ENOENT" -> "FileNotFoundError"
      [] err = "EISDIR" -> "IsADirectoryError"
      [] err = "ENAMETOOLONG" -> "OSError"

\* the exception raised when a path is handed to the operating system: it is
\* encoded first, and may not hold U+0000
fspath_error(parts, encoding) ==
    IF \E k \in 1..Len(parts) : \E i \in 1..Len(parts[k]) : ~fsencodable(parts[k][i], encoding)
    THEN "UnicodeEncodeError"
    ELSE IF \E k \in 1..Len(parts) : \E i \in 1..Len(parts[k]) : parts[k][i] = "U+0000"
    THEN "ValueError"
    ELSE ""

\* os.mkdir on a path, r being what the walk of the path found: the errno
\* ("" for none) and the file system left
os_mkdir(tree, r) ==
    IF r.err # "" THEN [err |-> r.err, fs |-> tree]
    ELSE IF r.loc \in tree.files \/ is_dir_at(tree, r.loc) THEN [err |-> "EEXIST", fs |-> tree]
    ELSE [err |-> "", fs |-> [tree EXCEPT !.dirs = @ \cup {r.loc}]]

\* Path.mkdir(exist_ok=True) once os.mkdir returned made: an error other
\* than ENOENT is let go when the path is a directory (r is its walk)
exist_ok(tree, r, made) ==
    IF made.err = "" THEN [exc |-> "", fs |-> made.fs]
    ELSE IF made.err # "ENOENT" /\ r.err = "" /\ is_dir_at(tree, r.loc)
    THEN [exc |-> "", fs |-> tree]
    ELSE [exc |-> OSError(made.err), fs |-> tree]

\* Path.mkdir(parents=True) once the parent was made, with outcome up
mkdir_again(parts, up) ==
    IF up.exc # "" THEN up
    ELSE exist_ok(up.fs, lookup(up.fs, parts), os_mkdir(up.fs, lookup(up.fs, parts)))

RECURSIVE mkdir(_, _, _)
\* Path.mkdir(parents=True, exist_ok=True) once os.mkdir returned first: on
\* ENOENT the parent is made, then the directory, unless the path is its own
\* parent
mkdir_parents(tree, parts, encoding, first) ==
    IF first.err = "ENOENT" /\ parts # <<>> /\ ~(Len(parts) = 1 /\ is_root(parts[1]))
    THEN mkdir_again(parts, mkdir(tree, SubSeq(parts, 1, Len(parts) - 1), encoding))
    ELSE exist_ok(tree, lookup(tree, parts), first)

\* lines 29 and 62: Path.mkdir(parents=True, exist_ok=True) on the path of
\* these parts: the exception raised ("" for none) and the file system left
mkdir(tree, parts, encoding) ==
    IF fspath_error(parts, encoding) # ""
    THEN [exc |-> fspath_error(parts, encoding), fs |-> tree]
    ELSE mkdir_parents(tree, parts, encoding, os_mkdir(tree, lookup(tree, parts)))

\* Path.write_text on a path, r being what the walk of the path found
os_open(tree, r) ==
    IF r.err # "" THEN [exc |-> OSError(r.err), fs |-> tree]
    ELSE IF is_dir_at(tree, r.loc) THEN [exc |-> "IsADirectoryError", fs |-> tree]
    ELSE [exc |-> "", fs |-> [tree EXCEPT !.files = @ \cup {r.loc}]]

\* line 65: Path.write_text on the path of these parts
write_text(tree, parts, encoding) ==
    IF fspath_error(parts, encoding) # ""
    THEN [exc |-> fspath_error(parts, encoding), fs |-> tree]
    ELSE os_open(tree, lookup(tree, parts))

\* what dir holds for an entry of the input directory that is a directory
DirEntry == <<[t |-> "dir", tag |-> "", kind |-> "", s |-> <<>>]>>

\* line 32: read_text(encoding="utf-8") on the entry of a name, at the place
\* loc, entries giving the texts of the files.  A file holds no surrogate:
\* one written in the text of a file stands for bytes that are no UTF-8
read_text(tree, entries, loc, name) ==
    IF Append(loc, name) \in tree.dirs THEN "IsADirectoryError"
    ELSE IF has_surrogate(entries[name]) THEN "UnicodeDecodeError"
    ELSE ""

\* line 28: the parts of outdir, for the argument --outdir (<<>> when it is
\* not given, or empty)
outdir_parts(arg) ==
    path_parts(IF arg # <<>> THEN arg
               ELSE <<".", "/", "d", "o", "x", "y", "g", "e", "n", "_", "m", "d", "_",
                      "o", "u", "t", "p", "u", "t">>)

\* line 61: the parts of group_dir
group_dir(arg, group) == joinpath(outdir_parts(arg), path_parts(group))

\* line 64: the parts of out_file
out_file(arg, group, stem) ==
    joinpath(group_dir(arg, group), << stem \o <<".", "m", "d">> >>)

\* line 66, the file being written with outcome wrote: print encodes the path
\* for stdout
print_wrote(encoding, file, wrote) ==
    IF wrote.exc # "" THEN [exc |-> wrote.exc, line |-> 65, fs |-> wrote.fs]
    ELSE IF \E k \in 1..Len(file) : \E i \in 1..Len(file[k]) :
                ~encodable(file[k][i], encoding.stdout)
    THEN [exc |-> "UnicodeEncodeError", line |-> 66, fs |-> wrote.fs]
    ELSE [exc |-> "", line |-> 0, fs |-> wrote.fs]

\* lines 64-66, the directory being made with outcome made
write_file(encoding, file, made) ==
    IF made.exc # "" THEN [exc |-> made.exc, line |-> 62, fs |-> made.fs]
    ELSE print_wrote(encoding, file, write_text(made.fs, file, encoding.fs))

\* lines 61-66 for the file of a stem and of a group: the exception raised
\* ("" for none), the line that raised it and the file system left
write_out(tree, encoding, arg, stem, group) ==
    write_file(encoding, out_file(arg, group, stem),
               mkdir(tree, group_dir(arg, group), encoding.fs))

\* the stems of the files a directory may hold, and their names
Stems == {<<"b", "a", "C", "d", "E", "f">>[i] : i \in 1..MaxFiles}
XmlName(c) == <<c, ".", "x", "m", "l">>

\* the texts of the files of a small directory: no XML at all, a namespace,
\* a class of that namespace, a file
NamespaceText ==
    tostring(CompoundDoc(<<Node("compounddef", "namespace",
        <<Leaf("compoundname", <<"N">>),
          Desc("briefdescription", <<>>, <<Para(<<"p">>)>>)>>)>>))
ClassText ==
    tostring(CompoundDoc(<<Node("compounddef", "class",
        <<Leaf("compoundname", <<"N", ":", ":", "H">>)>>)>>))
FileText ==
    tostring(CompoundDoc(<<Node("compounddef", "file",
        <<Leaf("compoundname", <<"u">>)>>)>>))
NotXmlText == <<Data(<<"x">>), Stray>>
CliTexts == {NotXmlText, NamespaceText, ClassText, FileText}

\* texts that vary in the kind and the name of the compound
GroupTexts ==
    { tostring(CompoundDoc(<<Node("compounddef", k, Opt(n))>>)) :
        k \in {"namespace", "class", "file", ""},
        n \in {None} \cup {Leaf("compoundname", c) : c \in SeqUpTo({"N", ":", " "}, MaxNameLen)} }
    \cup { NotXmlText,
           tostring(CompoundDoc(<<>>)),
           tostring(CompoundDoc(<<Node("sectiondef", "", <<Node("compounddef", "namespace",
               <<Leaf("compoundname", <<"N">>)>>)>>)>>)),
           tostring(CompoundDoc(<<Node("compounddef", "class",
               <<Leaf("compoundname", <<"N", ":", ":", "H">>)>>),
               Node("compounddef", "namespace", <<Leaf("compoundname", <<"M">>)>>)>>)) }

\* the working directory, and the input directory in it
Cwd == << <<"T">> >>
InDir == Append(Cwd, <<"i", "n">>)

\* a file system: the working directory with the input directory, and the
\* directories and files given by their places from the working directory
Tree(ds, fls) ==
    [cwd |-> Cwd,
     dirs |-> {Cwd, InDir} \cup {Cwd \o d : d \in ds},
     files |-> {Cwd \o f : f \in fls}]

\* ... with the entries of the input directory in it
with_input(tree, d) ==
    LET place(f) == Append(InDir, f)
    IN [tree EXCEPT !.dirs = @ \cup {place(f) : f \in {g \in DOMAIN d : d[g] = DirEntry}},
                    !.files = @ \cup {place(f) : f \in {g \in DOMAIN d : d[g] # DirEntry}}]

\* the usual encodings
Utf8 == [stdout |-> "utf-8", fs |-> "utf-8"]

\* what main is called in, with --outdir out: outdir is not there yet; it
\* holds the output of an earlier run; it holds a file where the "global"
\* directory is to be
UsualEnvs ==
    { [tree |-> Tree({}, {}), outdir |-> <<"o", "u", "t">>, encoding |-> Utf8],
      [tree |-> Tree({ << <<"o", "u", "t">> >>,
                       << <<"o", "u", "t">>, <<"N">> >>,
                       << <<"o", "u", "t">>, <<"g", "l", "o", "b", "a", "l">> >> },
                     { << <<"o", "u", "t">>, <<"N">>, <<"b", ".", "m", "d">> >> }),
       outdir |-> <<"o", "u", "t">>, encoding |-> Utf8],
      [tree |-> Tree({ << <<"o", "u", "t">> >> },
                     { << <<"o", "u", "t">>, <<"g", "l", "o", "b", "a", "l">> >> }),
       outdir |-> <<"o", "u", "t">>, encoding |-> Utf8] }

\* runs in which something is out of the ordinary: outdir is a file, or below
\* a file, or not given, or absolute, or the input directory itself, or a
\* directory made in it that line 31 then lists or does not list, or its name
\* cannot be handed to the system or printed; a group leads back into
\* outdir, or is absolute, or has a name of NameMax bytes and of more; stdout
\* or the file system cannot encode a name; an entry is no UTF-8, or a
\* directory, or starts with a byte order mark, or holds a surrogate by
\* reference
OddRuns ==
    LET one(t1) == [n \in {XmlName("b")} |-> t1]
        two(t1, t2) == [n \in {XmlName("a"), XmlName("b")} |->
                           IF n = XmlName("a") THEN t1 ELSE t2]
        out == <<"o", "u", "t">>
        run(d, tree, arg, enc) ==
            [dir |-> d, env |-> [tree |-> tree, outdir |-> arg, encoding |-> enc]]
    IN { run(one(NamespaceText), Tree({}, { <<out>> }), out, Utf8),
         run(one(NamespaceText), Tree({}, { << <<"f">> >> }), <<"f", "/">> \o out, Utf8),
         run(one(NamespaceText), Tree({}, {}), <<"f", "/">> \o out, Utf8),
         run(one(NamespaceText), Tree({}, {}), <<>>, Utf8),
         run(one(NamespaceText), Tree({}, {}), <<"/", "T", "/">> \o out, Utf8),
         run(one(NamespaceText), Tree({}, {}), <<"/", "/", "r">>, Utf8),
         run(one(NamespaceText), Tree({}, {}), <<"o", "U+0000">>, Utf8),
         run(two(ClassText, NamespaceText), Tree({}, {}), <<"o", "U+DCFF">>, Utf8),
         run(two(NamedText("namespace", <<"b", ".", "x", "m", "l">>), NamespaceText),
             Tree({}, {}), <<"i", "n">>, Utf8),
         run(two(NamespaceText,
                 NamedText("namespace", <<".", ".", "/">> \o out \o <<"/", "N", "/", "a", ".", "m", "d">>)),
             Tree({}, {}), out, Utf8),
         run(two(NamedText("namespace", [i \in 1..NameMax |-> "a"]),
                 NamedText("namespace", [i \in 1..(NameMax + 1) |-> "a"])),
             Tree({}, {}), out, Utf8),
         run(two(NamedText("namespace", [i \in 1..127 |-> "é"] \o <<"a">>),
                 NamedText("namespace", [i \in 1..128 |-> "é"])),
             Tree({}, {}), out, Utf8),
         run(two(NamedText("namespace", <<"Σ">>), NamespaceText),
             Tree({}, {}), out, [stdout |-> "ascii", fs |-> "utf-8"]),
         run(two(NamedText("namespace", <<"é">>), NamedText("namespace", <<"Σ">>)),
             Tree({}, {}), out, [stdout |-> "latin-1", fs |-> "utf-8"]),
         run(two(NamedText("namespace", <<"Σ">>), NamespaceText),
             Tree({}, {}), out, [stdout |-> "utf-8", fs |-> "ascii"]),
         run(one(NamedText("namespace", <<"/", "T", "/", "x">>)), Tree({}, {}), out, Utf8),
         run(two(NotXmlText, <<Data(<<"U+DCFF">>)>> \o NamespaceText), Tree({}, {}), out, Utf8),
         run(two(<<Data(<<"x", "U+D800">>)>>, NamespaceText), Tree({}, {}), out, Utf8),
         run(one(NamespaceText), Tree({}, {}), <<"i", "n", "/", "c", ".", "x", "m", "l">>, Utf8),
         run(one(NamespaceText), Tree({}, {}), <<"i", "n", "/", "B", ".", "x", "m", "l", "/", "o">>, Utf8),
         run(one(NamespaceText), Tree({}, {}), <<"i", "n", "/", "b", ".", "x", "m", "l">>, Utf8),
         run(two(NotXmlText, NamespaceText), Tree({}, {}),
             <<"i", "n", "/", "a", " ", "b", ".", "x", "m", "l">>, Utf8),
         run(one(NamespaceText), Tree({}, {}), <<"i", "n", "/", ".", "x", "m", "l">>, Utf8),
         run(one(NamespaceText), Tree({ << <<"i", "n">>, <<"b", ".", "x", "m", "l", "x">> >>,
                                        << <<"i", "n">>, <<"x", "m", "l">> >> },
                                      { << <<"i", "n">>, <<"b", ".", "m", "d">> >> }),
             <<"i", "n", "/", "c", ".", "X", "M", "L">>, Utf8),
         run(two(DirEntry, NamespaceText), Tree({}, {}), out, Utf8),
         run(two(NamespaceText, DirEntry), Tree({}, {}), out, Utf8),
         run(two(<<Data(<<BOM>>)>> \o NamespaceText, <<Data(<<BOM>>)>> \o ClassText),
             Tree({ <<out>> }, { <<out, <<"g", "l", "o", "b", "a", "l">> >> }), out, Utf8),
         run(two(<<StartTag("doxygen", ""), StartTag("compounddef", "namespace"),
                   StartTag("compoundname", ""), Data(<<"N">>), CharRef("U+D800"),
                   EndTag("compoundname"), EndTag("compounddef"), EndTag("doxygen")>>,
                 NamespaceText),
             Tree({}, {}), out, Utf8) }

\* main([in, "--outdir", outdir]) is called on a directory of a set in a
\* usual environment, or in an odd run
InitCli(dirs) ==
    /\ pc = "main"
    /\ \/ \E d \in dirs : \E e \in UsualEnvs :
              /\ dir = d
              /\ fs = with_input(e.tree, d)
              /\ outdir = e.outdir
              /\ encodings = e.encoding
       \/ \E r \in OddRuns :
              /\ dir = r.dir
              /\ fs = with_input(r.env.tree, r.dir)
              /\ outdir = r.env.outdir
              /\ encodings = r.env.encoding
    /\ files = <<>> /\ fi = 0 /\ stderr = <<>> /\ written = <<>> /\ calls = <<>>
    /\ rc = -1
    /\ exc = [type |-> "", line |-> 0]
    /\ IdleConv /\ IdleAnchor /\ IdleText

\* lines 27-31: outdir is there or is made, then the entries of the input
\* directory are listed, as they are after that
Glob ==
    /\ pc = "main"
    /\ \E made \in {mkdir(fs, outdir_parts(outdir), encodings.fs)} :
           /\ made.exc = ""
           /\ fs' = made.fs
           /\ files' = sorted(glob(made.fs, InDir))
    /\ fi' = 1
    /\ pc' = "loop"
    /\ UNCHANGED <<dir, stderr, written, calls, rc, exc, outdir, encodings>>
    /\ UNCHANGED <<convVars, anchorVars, textVars>>

\* line 29: making outdir raises, which nothing catches
MkdirFails ==
    /\ pc = "main"
    /\ \E made \in {mkdir(fs, outdir_parts(outdir), encodings.fs)} :
           /\ made.exc # ""
           /\ fs' = made.fs
           /\ exc' = [type |-> made.exc, line |-> 29]
    /\ pc' = "raised"
    /\ UNCHANGED <<dir, files, fi, stderr, written, calls, rc, outdir, encodings>>
    /\ UNCHANGED <<convVars, anchorVars, textVars>>

\* line 32: reading the file raises, outside the try of line 33
ReadFails ==
    /\ pc = "loop"
    /\ fi <= Len(files)
    /\ read_text(fs, dir, InDir, files[fi]) # ""
    /\ exc' = [type |-> read_text(fs, dir, InDir, files[fi]), line |-> 32]
    /\ pc' = "raised"
    /\ UNCHANGED <<dir, files, fi, stderr, written, calls, rc, fs, outdir, encodings>>
    /\ UNCHANGED <<convVars, anchorVars, textVars>>

\* lines 32-40: convert raises a ValueError
Skip ==
    /\ pc = "loop"
    /\ fi <= Len(files)
    /\ read_text(fs, dir, InDir, files[fi]) = ""
    /\ convert(dir[files[fi]]).raised \in {"ValueError", "UnicodeEncodeError"}
    /\ calls' = Append(calls, files[fi])
    /\ stderr' = Append(stderr, files[fi])
    /\ fi' = fi + 1
    /\ UNCHANGED <<pc, dir, files, written, rc, fs, exc, outdir, encodings>>
    /\ UNCHANGED <<convVars, anchorVars, textVars>>

\* lines 32-66: convert returns, the directory is made, the file written and
\* its path printed
Write ==
    /\ pc = "loop"
    /\ fi <= Len(files)
    /\ read_text(fs, dir, InDir, files[fi]) = ""
    /\ convert(dir[files[fi]]).raised = ""
    /\ \E out \in {write_out(fs, encodings, outdir, stem_of(files[fi]), group_of(dir[files[fi]]))} :
           /\ out.exc = ""
           /\ fs' = out.fs
    /\ calls' = Append(calls, files[fi])
    /\ written' = Append(written, [file |-> files[fi],
                                   group |-> group_of(dir[files[fi]]),
                                   name |-> stem_of(files[fi]) \o <<".", "m", "d">>,
                                   stem |-> stem_of(files[fi]),
                                   md |-> convert(dir[files[fi]]).md])
    /\ fi' = fi + 1
    /\ UNCHANGED <<pc, dir, files, stderr, rc, exc, outdir, encodings>>
    /\ UNCHANGED <<convVars, anchorVars, textVars>>

\* lines 32-65: convert returns, and making the directory (line 62) or writing
\* the file (line 65) raises, which nothing catches
WriteFails ==
    /\ pc = "loop"
    /\ fi <= Len(files)
    /\ read_text(fs, dir, InDir, files[fi]) = ""
    /\ convert(dir[files[fi]]).raised = ""
    /\ \E out \in {write_out(fs, encodings, outdir, stem_of(files[fi]), group_of(dir[files[fi]]))} :
           /\ out.line \in {62, 65}
           /\ fs' = out.fs
           /\ exc' = [type |-> out.exc, line |-> out.line]
    /\ calls' = Append(calls, files[fi])
    /\ pc' = "raised"
    /\ UNCHANGED <<dir, files, fi, stderr, written, rc, outdir, encodings>>
    /\ UNCHANGED <<convVars, anchorVars, textVars>>

\* lines 32-66: the file is written, and printing its path (line 66) raises
PrintFails ==
    /\ pc = "loop"
    /\ fi <= Len(files)
    /\ read_text(fs, dir, InDir, files[fi]) = ""
    /\ convert(dir[files[fi]]).raised = ""
    /\ \E out \in {write_out(fs, encodings, outdir, stem_of(files[fi]), group_of(dir[files[fi]]))} :
           /\ out.line = 66
           /\ fs' = out.fs
    /\ calls' = Append(calls, files[fi])
    /\ written' = Append(written, [file |-> files[fi],
                                   group |-> group_of(dir[files[fi]]),
                                   name |-> stem_of(files[fi]) \o <<".", "m", "d">>,
                                   stem |-> stem_of(files[fi]),
                                   md |-> convert(dir[files[fi]]).md])
    /\ exc' = [type |-> "UnicodeEncodeError", line |-> 66]
    /\ pc' = "raised"
    /\ UNCHANGED <<dir, files, fi, stderr, rc, outdir, encodings>>
    /\ UNCHANGED <<convVars, anchorVars, textVars>>

\* line 67
Exit ==
    /\ pc = "loop"
    /\ fi > Len(files)
    /\ rc' = 0
    /\ pc' = "exit"
    /\ UNCHANGED <<dir, files, fi, stderr, written, calls, fs, exc, outdir, encodings>>
    /\ UNCHANGED <<convVars, anchorVars, textVars>>

CliNext ==
    \/ Glob
    \/ MkdirFails
    \/ ReadFails
    \/ Skip
    \/ Write
    \/ WriteFails
    \/ PrintFails
    \/ Exit

\* directories of up to MaxFiles small files
SmallDirs == UNION { [D -> CliTexts] : D \in SUBSET {XmlName(c) : c \in Stems} }

\* directories of one or two files, the first varying in its compound; then
\* a name with a no-break space and a carriage return around it, and groups
\* that meet a file written before them, or a directory made before them
GroupDirs ==
    { [n \in {XmlName("b")} |-> t] : t \in GroupTexts }
    \cup { [n \in {XmlName("a"), XmlName("b")} |-> IF n = XmlName("b") THEN t ELSE NotXmlText] : t \in GroupTexts }
    \cup { [n \in {XmlName("b")} |-> NamedText("namespace", <<" ", "N", "\r">>)] }
    \cup { [n \in {XmlName("a"), XmlName("b")} |-> IF n = XmlName("a") THEN NamedText(x[1], x[2])
                                            ELSE NamedText(x[3], x[4])] :
             x \in { <<"class", <<":", ":", "x">>, "namespace", <<"a", ".", "m", "d">>>>,
                     <<"namespace", <<"b", ".", "m", "d">>, "class", <<":", ":", "x">>>>,
                     <<"class", <<":", ":", "x">>, "namespace", <<"a", ".", "m", "d", "/", "n">>>>,
                     <<"namespace", <<"n", "/", ".", ".", "/", "m">>, "namespace", <<".", ".">>>>,
                     <<"namespace", <<"m">>, "class", <<"m", "/", ":", ":", "x">>>> } }

SpecCli == InitCli(SmallDirs) /\ [][CliNext]_vars
SpecGroup == InitCli(GroupDirs) /\ [][CliNext]_vars

SpecAnchor == InitAnchor /\ [][AnchorNext]_vars
SpecText == InitText /\ [][TextNext]_vars

---------------------------------------------------------------------------
(* Well-formed XML, stated on the tokens alone: no stray markup, the tags   *)
(* properly nested, exactly one document element, nothing but white space  *)
(* outside it (a byte order mark may come first), no character that XML    *)
(* forbids, and no "]]>" written in character data.                        *)

RECURSIVE Nested(_, _, _)
\* open: the names of the open tags; closed: how many document elements closed
Nested(toks, open, closed) ==
    IF toks = <<>> THEN open = <<>> /\ closed = 1
    ELSE LET tk == Head(toks)
         IN CASE tk.t = "stray" -> FALSE
              [] tk.t = "data" ->
                    /\ \A i \in 1..Len(tk.s) : tk.s[i] \notin NotXmlChar
                    /\ (open = <<>> => \A i \in 1..Len(tk.s) : tk.s[i] \in XmlSpace)
                    /\ Nested(Tail(toks), open, closed)
              [] tk.t = "ref" ->
                    /\ open # <<>>
                    /\ tk.s[1] \notin NotXmlChar
                    /\ Nested(Tail(toks), open, closed)
              [] tk.t = "start" ->
                    /\ (open = <<>> => closed = 0)
                    /\ Nested(Tail(toks), <<tk.tag>> \o open, closed)
              [] tk.t = "end" ->
                    /\ open # <<>>
                    /\ Head(open) = tk.tag
                    /\ Nested(Tail(toks), Tail(open),
                              IF Len(open) = 1 THEN closed + 1 ELSE closed)

RECURSIVE Written(_)
\* the characters written in a text, one "<markup>" for each tag or reference
Written(toks) ==
    IF toks = <<>> THEN <<>>
    ELSE (IF Head(toks).t = "data" THEN Head(toks).s ELSE <<"<markup>">>)
         \o Written(Tail(toks))

\* no "]]>" is written in the character data of a text
NoCdataEnd(toks) ==
    \A i \in 1..(Len(Written(toks)) - 2) :
        ~(Written(toks)[i] = "]" /\ Written(toks)[i + 1] = "]" /\ Written(toks)[i + 2] = ">")

\* the text from its first character on, a byte order mark there left out
AfterMark(toks) ==
    LET filled == SelectSeq(toks, LAMBDA tk : tk.t # "data" \/ tk.s # <<>>)
    IN IF filled # <<>> /\ filled[1].t = "data" /\ filled[1].s[1] = BOM
       THEN <<Data(Tail(filled[1].s))>> \o Tail(filled)
       ELSE filled

WellFormedXml(toks) == Nested(AfterMark(toks), <<>>, 0) /\ NoCdataEnd(toks)

\* the classes of ValueError that convert lets out: the one of line 48 and
\* its subclass UnicodeEncodeError
ValueErrors == {"ValueError", "UnicodeEncodeError"}

---------------------------------------------------------------------------
(* C1 *)

\* C1: convert raises ValueError exactly when the text is not well-formed XML,
\* and then nothing was emitted and nothing is returned; on well-formed XML it
\* raises nothing, whatever the document lacks, and what it returns is a
\* complete Markdown text (it ends with the newline of the final assembly).
\* The exception is an instance of ValueError: the one of line 48, or, for a
\* str in which a surrogate is written, its subclass UnicodeEncodeError.
C1_RaisesIffMalformed ==
    /\ raised \in {""} \cup ValueErrors
    /\ (pc = "raised" =>
            /\ ~WellFormedXml(doxygen_text)
            /\ raised \in ValueErrors
            /\ (raised = "UnicodeEncodeError" <=> has_surrogate(doxygen_text))
            /\ md_parts = <<>> /\ result = <<>>)
    /\ (pc \in {"compounds", "members", "returned"} =>
            /\ WellFormedXml(doxygen_text)
            /\ raised = "")
    /\ (pc = "returned" => result # <<>> /\ result[Len(result)] = NL)
    /\ (pc # "returned" => result = <<>>)

\* a text whose end tag does not match was refused
C1_Witness ==
    /\ pc = "raised"
    /\ doxygen_text = <<StartTag("compounddef", "class"), EndTag("memberdef")>>
    /\ raised = "ValueError"

---------------------------------------------------------------------------
(* C4 *)

\* the alphanumeric characters: ASCII lowercase letters and digits
AsciiAlnum ==
    {"a","b","c","d","e","f","g","h","i","j","k","l","m",
     "n","o","p","q","r","s","t","u","v","w","x","y","z",
     "0","1","2","3","4","5","6","7","8","9"}

\* the length of the leading run of alphanumeric characters
LeadLen(str) ==
    CHOOSE k \in 0..Len(str) :
        /\ \A i \in 1..k : str[i] \in AsciiAlnum
        /\ (k < Len(str) => str[k + 1] \notin AsciiAlnum)

RECURSIVE AlnumRuns(_)
\* the maximal runs of lowercase letters and digits of a string, in order
AlnumRuns(str) ==
    IF str = <<>> THEN <<>>
    ELSE IF LeadLen(str) = 0 THEN AlnumRuns(Tail(str))
    ELSE <<SubSeq(str, 1, LeadLen(str))>>
         \o AlnumRuns(SubSeq(str, LeadLen(str) + 1, Len(str)))

\* C4: the slug of a text is its lowercased text with every maximal run of
\* characters that are not ASCII letters or digits replaced by one hyphen and
\* the hyphens at both ends removed, that is, its runs of letters and digits
\* joined by single hyphens: only lowercase letters, digits and hyphens, no
\* hyphen first or last, no two hyphens in a row, empty for the empty text;
\* 'T' gives 't' and 'int a' gives 'int-a'.
C4_Slug ==
    pc = "anchor_returned" =>
        /\ s = join(<<"-">>, AlnumRuns(lower(text)))
        /\ \A i \in 1..Len(s) : s[i] \in AsciiAlnum \cup {"-"}
        /\ (s # <<>> => s[1] # "-" /\ s[Len(s)] # "-")
        /\ \A i \in 1..(Len(s) - 1) : ~(s[i] = "-" /\ s[i + 1] = "-")
        /\ (text = <<>> => s = <<>>)
        /\ (text = <<"T">> => s = <<"t">>)
        /\ (text = <<"i", "n", "t", " ", "a">> => s = <<"i", "n", "t", "-", "a">>)

\* a run of two separators between two words became one hyphen, and the
\* upper case letter a lower case one
C4_Witness ==
    /\ pc = "anchor_returned"
    /\ text = <<"a", " ", "-", "T">>
    /\ s = <<"a", "-", "t">>

---------------------------------------------------------------------------
(* C8 *)

\* C8: with at least one direct paragraph child the extractor returns the
\* trimmed non-empty paragraph texts joined by a blank line, and nothing from
\* outside the paragraphs; only with no paragraph child at all does it return
\* the trimmed whole text of the node.
C8_FallbackOnlyWithoutParagraphs ==
    pc = "text_returned" =>
        ret = IF findall(elem, "para") # <<>>
              THEN join(<<NL, NL>>, para_texts(findall(elem, "para")))
              ELSE strip(itertext(elem))

---------------------------------------------------------------------------
(* C2 *)

\* the text of an optional description node (4.1)
DescText(d) == IF d = None THEN <<>> ELSE _text_from_elem(d)

\* a block, when its text is not empty
BlockIf(txt) == IF txt # <<>> THEN <<{txt}>> ELSE <<>>

\* first, else second
Fallback(a, b) == IF a # <<>> THEN a ELSE b

\* what a compound is to yield, as the set of blocks allowed at each place:
\* the list item of a value carries the value's brief text or none
C2_ValueItem(ev) ==
    LET pre == L_item_open \o Fallback(findtext(ev, "name"), findtext(ev, "id"))
               \o L_item_mid
    IN {pre, pre \o DescText(find(ev, "briefdescription"))}

C2_Enum(enum) ==
    LET evs == findall(enum, "enumvalue")
    IN <<{L_enum \o Fallback(findtext(enum, "name"), findtext(enum, "definition"))}>>
       \o BlockIf(DescText(find(enum, "briefdescription")))
       \o [i \in 1..Len(evs) |-> C2_ValueItem(evs[i])]

RECURSIVE C2_Enums(_)
C2_Enums(enums) ==
    IF enums = <<>> THEN <<>> ELSE C2_Enum(Head(enums)) \o C2_Enums(Tail(enums))

C2_Compound(comp) ==
    (IF comp.kind \in {"class", "struct", "namespace"}
     THEN <<{L_h2 \o findtext(comp, "compoundname")}>>
          \o BlockIf(DescText(find(comp, "briefdescription")))
          \o BlockIf(DescText(find(comp, "detaileddescription")))
     ELSE <<>>)
    \o C2_Enums(findall_deep(comp, "enum"))

RECURSIVE C2_Compounds(_)
C2_Compounds(comps) ==
    IF comps = <<>> THEN <<>>
    ELSE C2_Compound(Head(comps)) \o C2_Compounds(Tail(comps))

Matches(blocks, pattern) ==
    /\ Len(blocks) = Len(pattern)
    /\ \A i \in 1..Len(blocks) : blocks[i] \in pattern[i]

\* C2: the compounds are rendered in document order; one of kind class,
\* struct or namespace yields '## <compoundname>', its brief text if not
\* empty, its detailed text if not empty; one of another kind yields neither;
\* and whatever the kind, every enumeration under the compound yields
\* '### Enum: <name>' and one list item '- `<value-name>`: <value-brief>' per
\* value (after the enumeration's own brief text, if it has one).
C2_CompoundBlocks ==
    /\ (pc = "compounds" =>
            Matches(md_parts,
                    C2_Compounds(SubSeq(findall_deep(root, "compounddef"), 1, idx - 1))))
    /\ (pc = "members" /\ idx = 1 =>
            Matches(md_parts, C2_Compounds(findall_deep(root, "compounddef"))))

\* a class with a brief text, then a file with an enumeration, both rendered
C2_Witness ==
    /\ pc = "compounds"
    /\ idx = 3
    /\ findall_deep(root, "compounddef")[1].kind = "class"
    /\ findall_deep(root, "compounddef")[2].kind = "file"
    /\ md_parts = << <<"#", "#", " ", "X">>, <<"p">>,
                     <<"#", "#", "#", " ", "E", "n", "u", "m", ":", " ", "E">>,
                     <<"-", " ", BT, "R", BT, ":", " ">> >>

---------------------------------------------------------------------------
(* C3 *)

\* the blocks a step appended
Appended(before, after) == SubSeq(after, Len(before) + 1, Len(after))

\* the n blocks after the rule of the parameter table
TableRows(new, n) ==
    LET j == CHOOSE k \in 1..Len(new) : new[k] = L_table_rule
    IN SubSeq(new, j + 1, j + n)

HasTable(new, n) ==
    \E k \in 1..Len(new) : new[k] = L_table_rule /\ Len(new) >= k + n

C3_Name(p) == Fallback(findtext(p, "declname"), findtext(p, "defname"))

C3_NameCell(p, member) ==
    IF C3_Name(p) # <<>>
    THEN <<"[", BT>> \o C3_Name(p) \o <<BT, "]", "(", "#">>
         \o _anchor(findtext(member, "name") \o <<" ">> \o findtext(member, "argsstring"))
         \o <<"-">> \o _anchor(C3_Name(p)) \o <<")">>
    ELSE <<>>

C3_TypeCell(p) ==
    LET ty == strip(findtext(p, "type"))
    IN IF _anchor(ty) # <<>>
       THEN <<"[", BT>> \o ty \o <<BT, "]", "(", "#", "t", "y", "p", "e", "-">> \o _anchor(ty) \o <<")">>
       ELSE <<BT>> \o ty \o <<BT>>

C3_RowOk(row, p, member) ==
    LET pre == <<"|", " ">> \o C3_NameCell(p, member) \o <<" ", "|", " ">>
               \o C3_TypeCell(p) \o <<" ", "|", " ">>
    IN /\ startswith(row, pre)
       /\ Len(row) >= Len(pre) + 2
       /\ SubSeq(row, Len(row) - 1, Len(row)) = <<" ", "|">>

\* C3: in the row of every parameter of a member the name cell is the link
\* [`<name>`](#<member-anchor>-<name-slug>) when the name (declname, else
\* defname) is not empty and is empty otherwise, the member anchor being the
\* slug of name + ' ' + argsstring; the type cell is the link
\* [`<type>`](#type-<type-slug>) when the slug of the trimmed type is not
\* empty and the inline code `<type>` when it is.
C3_ParamCells ==
    [][ (pc = "members" /\ idx' = idx + 1) =>
            LET member == findall_deep(root, "memberdef")[idx]
                ps == findall(member, "param")
                new == Appended(md_parts, md_parts')
            IN ps # <<>> =>
                 /\ HasTable(new, Len(ps))
                 /\ \A i \in 1..Len(ps) :
                        C3_RowOk(TableRows(new, Len(ps))[i], ps[i], member) ]_vars

\* a parameter named a of type * (a type with an empty slug) in member f(T a)
C3_Witness ==
    /\ pc = "members"
    /\ idx = 2
    /\ \E i \in 1..Len(md_parts) :
           md_parts[i] = <<"|", " ", "[", BT, "a", BT, "]", "(", "#", "f", "-", "t", "-", "a", "-", "a", ")", " ", "|", " ", BT, "*", BT, " ", "|", " ", " ", "|">>

---------------------------------------------------------------------------
(* C5 *)

EndsWithOneNewline(str) ==
    /\ str # <<>>
    /\ str[Len(str)] = NL
    /\ (Len(str) > 1 => str[Len(str) - 1] # NL)

\* C5 as stated: whatever the document, the returned text does not begin with
\* a newline and ends with exactly one.
C5_AsStated ==
    pc = "returned" => result[1] # NL /\ EndsWithOneNewline(result)

\* C5, amended: the returned text ends with exactly one newline; when at least
\* one block was emitted it does not begin with a newline (nor with any white
\* space); when no block was emitted it is the single newline.
C5_Trimmed ==
    pc = "returned" =>
        /\ EndsWithOneNewline(result)
        /\ (md_parts # <<>> => result[1] \notin Whitespace)
        /\ (md_parts = <<>> => result = <<NL>>)

\* a member was rendered: the blocks end with the empty block, and the text
\* returned ends with one newline
C5_Witness ==
    /\ pc = "returned"
    /\ md_parts # <<>>
    /\ md_parts[Len(md_parts)] = <<>>
    /\ result[1] = "#"
    /\ EndsWithOneNewline(result)

---------------------------------------------------------------------------
(* C9 *)

\* the fenced blocks the listings of a detailed description are to yield
RECURSIVE C9_Fenced(_)
C9_Fenced(listings) ==
    IF listings = <<>> THEN <<>>
    ELSE LET code == strip_chars(itertext(Head(listings)), {NL})
         IN (IF code # <<>>
             THEN << <<BT, BT, BT, "c", "p", "p", NL>> \o code \o <<NL, BT, BT, BT>> >>
             ELSE <<>>)
            \o C9_Fenced(Tail(listings))

\* C9: every code listing of a member's detailed description whose text, with
\* its leading and trailing newlines removed, is not empty yields one block
\* fenced as cpp that holds exactly that text, indentation and other white
\* space kept; a listing whose text is then empty yields none.
C9_ListingKept ==
    [][ (pc = "members" /\ idx' = idx + 1) =>
            LET member == findall_deep(root, "memberdef")[idx]
                detailed == find(member, "detaileddescription")
                listings == IF detailed = None THEN <<>>
                            ELSE findall(detailed, "programlisting")
                new == Appended(md_parts, md_parts')
            IN SelectSeq(new, LAMBDA b : startswith(b, <<BT, BT, BT, "c", "p", "p">>))
               = C9_Fenced(listings) ]_vars

---------------------------------------------------------------------------
(* C10 *)

endswith(str, suffix) ==
    /\ Len(str) >= Len(suffix)
    /\ SubSeq(str, Len(str) - Len(suffix) + 1, Len(str)) = suffix

RECURSIVE C10_Items(_)
\* the list items of the values of some enumerations, the brief text by 4.1
C10_Items(enums) ==
    IF enums = <<>> THEN <<>>
    ELSE LET evs == findall(Head(enums), "enumvalue")
         IN [i \in 1..Len(evs) |->
                L_item_open \o Fallback(findtext(evs[i], "name"), findtext(evs[i], "id"))
                \o L_item_mid \o DescText(find(evs[i], "briefdescription"))]
            \o C10_Items(Tail(enums))

\* C10: the description cell of a parameter row and the brief text of the list
\* item of an enumeration value are the text the extractor (4.1) gives for
\* the brief description node of the parameter or value, raw text without
\* paragraphs included, and are empty only when the node is absent or its
\* text is.
C10_BriefByExtractor ==
    [][ /\ (pc = "members" /\ idx' = idx + 1) =>
               LET member == findall_deep(root, "memberdef")[idx]
                   ps == findall(member, "param")
                   new == Appended(md_parts, md_parts')
               IN ps # <<>> =>
                    /\ HasTable(new, Len(ps))
                    /\ \A i \in 1..Len(ps) :
                          endswith(TableRows(new, Len(ps))[i],
                                   <<" ", "|", " ">>
                                   \o DescText(find(ps[i], "briefdescription"))
                                   \o <<" ", "|">>)
        /\ (pc = "compounds" /\ idx' = idx + 1) =>
               LET comp == findall_deep(root, "compounddef")[idx]
                   new == Appended(md_parts, md_parts')
               IN SelectSeq(new, LAMBDA b : startswith(b, L_item_open))
                  = C10_Items(findall_deep(comp, "enum")) ]_vars

---------------------------------------------------------------------------
(* C6 *)

\* the part of a name before its first '::'
BeforeScope(name) ==
    LET k == CHOOSE i \in 1..(Len(name) - 1) :
                 /\ name[i] = ":" /\ name[i + 1] = ":"
                 /\ \A j \in 1..(i - 1) : ~(name[j] = ":" /\ name[j + 1] = ":")
    IN SubSeq(name, 1, k - 1)

HasScope(name) == \E i \in 1..(Len(name) - 1) : name[i] = ":" /\ name[i + 1] = ":"

C6_GroupAsStated(kind, name) ==
    IF kind = "namespace" THEN name
    ELSE IF HasScope(name) THEN BeforeScope(name)
    ELSE <<"g", "l", "o", "b", "a", "l">>

C6_GroupAmended(kind, name) ==
    IF kind = "namespace" /\ name # <<>> THEN name
    ELSE IF HasScope(name) THEN BeforeScope(name)
    ELSE <<"g", "l", "o", "b", "a", "l">>

\* the files convert was called on, and those it returned for
Called == { calls[i] : i \in 1..Len(calls) }
Converted == { f \in Called : WellFormedXml(dir[f]) }

\* an exception of line 62 or 65 has ended the run (the matter of C7)
Aborted == pc = "raised" /\ exc.line \in {62, 65}

\* the place of the file of the path <outdir>/<group>/<stem>.md, if it is there
Placed(group, stem) ==
    /\ lookup(fs, out_file(outdir, group, stem)).err = ""
    /\ lookup(fs, out_file(outdir, group, stem)).loc \in fs.files

\* every converted file was written, and once, as <stem>.md (but the last
\* one of a run that was ended so)
WrittenOnce ==
    /\ \A f \in Converted :
           \/ Aborted /\ f = calls[Len(calls)]
           \/ \E i \in 1..Len(written) : written[i].file = f
    /\ \A i, j \in 1..Len(written) : written[i].file = written[j].file => i = j
    /\ \A i \in 1..Len(written) :
           /\ written[i].file \in Converted
           /\ written[i].stem \o <<".", "x", "m", "l">> = written[i].file
           /\ written[i].name = written[i].stem \o <<".", "m", "d">>

\* C6 as stated: each converted file is written to the one path
\* <outdir>/<group>/<stem>.md, the group being the (trimmed) compound name when
\* the kind is namespace, else the part of the name before its first '::' when
\* it has one, else 'global'.
C6_AsStated ==
    /\ WrittenOnce
    /\ \A i \in 1..Len(written) :
           /\ written[i].group =
                  C6_GroupAsStated(first_compound(dir[written[i].file]).kind,
                                   first_compound(dir[written[i].file]).compname)
           /\ Placed(C6_GroupAsStated(first_compound(dir[written[i].file]).kind,
                                      first_compound(dir[written[i].file]).compname),
                     written[i].stem)

\* C6, amended: each converted file is written to the one path
\* <outdir>/<group>/<stem>.md, the group being the trimmed compound name when
\* the kind is namespace and that name is not empty; otherwise the part of the
\* name before its first '::' when it has one; otherwise 'global' (a namespace
\* without a name goes to 'global').
C6_Grouping ==
    /\ WrittenOnce
    /\ \A i \in 1..Len(written) :
           /\ written[i].group =
                  C6_GroupAmended(first_compound(dir[written[i].file]).kind,
                                  first_compound(dir[written[i].file]).compname)
           /\ Placed(C6_GroupAmended(first_compound(dir[written[i].file]).kind,
                                     first_compound(dir[written[i].file]).compname),
                     written[i].stem)

\* the class N::N was written to the group N
C6_Witness ==
    /\ pc = "exit"
    /\ \E i \in 1..Len(written) :
           /\ first_compound(dir[written[i].file]).kind = "class"
           /\ first_compound(dir[written[i].file]).compname = <<"N", ":", ":", "N">>
           /\ written[i].group = <<"N">>
           /\ written[i].name = <<"b", ".", "m", "d">>

---------------------------------------------------------------------------
(* C7 *)

\* the entries line 31 listed
Listed == { files[i] : i \in 1..Len(files) }

\* C7 as stated: convert is called once per file of the directory, in the
\* sorted order of the names; a file it fails on gets a skip notice and no
\* output, and the files after it are processed all the same: the run goes on
\* until every file was processed and then ends with return code 0.  It does
\* not hold: line 32 reads the file outside the try of line 33, so an entry
\* that is no UTF-8 text ends the run before convert is called on it, with the
\* entries after it unprocessed and no code returned (as does an exception of
\* lines 29, 62, 65 and 66).
C7_AsStated ==
    /\ \A i, j \in 1..Len(calls) : i < j => str_lt(calls[i], calls[j])
    /\ Called \subseteq Listed
    /\ \A f \in Called : \A g \in Listed \ Called : str_lt(f, g)
    /\ \A f \in Called :
           IF WellFormedXml(dir[f])
           THEN /\ \E i \in 1..Len(written) : written[i].file = f
                /\ \A i \in 1..Len(stderr) : stderr[i] # f
           ELSE /\ \E i \in 1..Len(stderr) : stderr[i] = f
                /\ \A i \in 1..Len(written) : written[i].file # f
    /\ (pc = "exit" => rc = 0 /\ Called = Listed)
    /\ (pc # "exit" => rc = -1 /\ pc \in {"main", "loop"})

-----
(* C11 *)

\* C11: a member's pass emits the block '**Type:** <return-type>' exactly
\* when the member's return-type string is not empty and the pass itself
\* emitted no '**Returns:**' block, whatever the member before it emitted and
\* however many blocks (table rows, template items) follow its own
\* '**Returns:**' block.
C11_TypeIffNoOwnReturns ==
    [][ (pc = "members" /\ idx' = idx + 1) =>
            LET member == findall_deep(root, "memberdef")[idx]
                ret_type == strip(findtext(member, "type"))
                new == Appended(md_parts, md_parts')
                own_returns == \E i \in 1..Len(new) :
                                   startswith(new[i], L_returns_prefix)
            IN SelectSeq(new, LAMBDA b : startswith(b, L_type))
               = IF ret_type # <<>> /\ ~own_returns
                 THEN <<L_type \o ret_type>>
                 ELSE <<>> ]_vars

=============================================================================
